---- MODULE Spec2Model ----
(***************************************************************************)
(* Model of the input-simulation core of src/tasks/BaseDNATask.py:         *)
(*   - the ticker closure of create_ticker and the group of                *)
(*     create_ticker_group;                                                *)
(*   - the mouse_lock protocol between the foreground thread               *)
(*     (_perform_random_click, move_mouse_with_trajectory,                 *)
(*     restore_mouse_position) and the fidget worker thread of             *)
(*     setup_fidget_action.                                                *)
(* Times are integers in units of 0.1 s; a random multiplier is an integer *)
(* number of tenths, so that  elapsed >= interval * multiplier  is         *)
(* elapsed * 10 >= interval * tenths  in exact arithmetic.                 *)
(***************************************************************************)
EXTENDS Integers, Sequences, FiniteSets, TLC

VARIABLES
    \* ---- create_ticker: the closure's cells and its configuration
    now,                    \* time.perf_counter(), in 0.1 s
    last_time,              \* nonlocal last_time
    armed,                  \* nonlocal armed
    interval,               \* get_interval(), constant, in 0.1 s
    interval_random_range,  \* <<lo, hi>> in tenths
    tk,                     \* record of the last two ticker operations
    \* ---- create_ticker_group
    tickers,                \* the list handed to create_ticker_group
    glog,                   \* the member calls made by the last group call
    \* ---- the foreground thread and the fidget worker
    fidget_params,          \* self.fidget_params
    afk_config,             \* self.afk_config (the two jitter settings)
    executor,               \* executor.current_task / exit_event / paused
    shared_frame,           \* self.shared_frame, as far as in_team() sees it
    lalt_pressed,           \* nonlocal of setup_fidget_action
    needs_resync,           \* nonlocal of setup_fidget_action
    lalt,                   \* the last two modifier key events sent
    current_drift,          \* _fidget_worker's drift accumulator
    wpc,                    \* position of the worker in _fidget_worker
    click,                  \* the frame of _perform_random_click (foreground)
    mv,                     \* per thread: frame of move_mouse_with_trajectory
    ev,                     \* what the last step emitted or ended
    \* ---- the motion executor and the trajectory planner, one call each
    motion,                 \* the frame of one call of the motion executor
    bezier,                 \* the frame of one call of _generate_bezier_curve
    \* ---- the worker's key press, and the workers of the thread pool
    key,                    \* the key of perform_random_key_press
    iter,                   \* what the worker has done in this turn of its loop
    pool,                   \* the _fidget_worker threads submitted to the pool
    moved,                  \* sum of the moves do_move_mouse_relative was given
    \* ---- the hardware spoofers
    spoofers,               \* the globals _keyboard_spoofer, _mouse_spoofer
    inj,                    \* the last acquisition of a spoofer by a caller
    mcall                   \* the frame of one call on MouseHardwareSpoofer

tickerVars == <<now, last_time, armed, interval, interval_random_range, tk>>
groupVars  == <<tickers, glog>>
sysVars    == <<fidget_params, afk_config, executor, shared_frame, lalt_pressed,
               needs_resync, lalt, current_drift, wpc, click, mv, ev>>
planVars   == <<motion, bezier>>
loopVars   == <<key, iter, pool, moved>>
injectVars == <<spoofers, inj, mcall>>
vars       == <<tickerVars, groupVars, sysVars, planVars, loopVars, injectVars>>

----------------------------------------------------------------------------
\* Bounds of the model.

\* the clock runs from 0 to MaxTime (in 0.1 s)
MaxTime == 12
\* a ticker group has at most MaxMembers members
MaxMembers == 3
\* the clock of the ticker-group specification runs from 0 to MaxGroupTime
MaxGroupTime == 3
\* a de-duplicated trajectory has 2..MaxPoints points
MaxPoints == 3

----------------------------------------------------------------------------
\* create_ticker

\* the configured intervals tried, in 0.1 s (0.0 s, 0.5 s, 1.0 s)
Intervals == {0, 5, 10}
\* the random ranges tried, in tenths: (1.0, 1.0), (0.5, 1.5), (0.5, 1.0)
Ranges == {<<10, 10>>, <<5, 15>>, <<5, 10>>}
\* random.uniform(lo, hi): the multipliers the model draws, in tenths
Uniform(range) == {m \in {5, 10, 15} : range[1] <= m /\ m <= range[2]}

\* last_time = 0 ; armed = False
NewTicker == [last_time |-> 0, armed |-> FALSE]

\* the test of tick(): last_time < 0 or now - last_time >= current_interval
Due(lt, t, iv, m) == lt < 0 \/ (t - lt) * 10 >= iv * m

\* tick() whose armed branch calls the action as well
tick_armed_fires(s, t, iv, m) ==
    IF s.armed
    THEN [last_time |-> t, armed |-> FALSE, fired |-> 1]
    ELSE IF Due(s.last_time, t, iv, m)
         THEN [last_time |-> t, armed |-> FALSE, fired |-> 1]
         ELSE [last_time |-> s.last_time, armed |-> FALSE, fired |-> 0]

\* tick() without the update the armed branch makes to last_time
tick_keeps_last_time(s, t, iv, m) ==
    IF s.armed
    THEN [last_time |-> s.last_time, armed |-> FALSE, fired |-> 0]
    ELSE IF Due(s.last_time, t, iv, m)
         THEN [last_time |-> t, armed |-> FALSE, fired |-> 1]
         ELSE [last_time |-> s.last_time, armed |-> FALSE, fired |-> 0]

\* tick() with a strict comparison of the elapsed time
tick_strict(s, t, iv, m) ==
    IF s.armed
    THEN [last_time |-> t, armed |-> FALSE, fired |-> 0]
    ELSE IF s.last_time < 0 \/ (t - s.last_time) * 10 > iv * m
         THEN [last_time |-> t, armed |-> FALSE, fired |-> 1]
         ELSE [last_time |-> s.last_time, armed |-> FALSE, fired |-> 0]

\* tick(): the new cells and the number of times action() was called
tick(s, t, iv, m) ==
    IF s.armed
    THEN [last_time |-> t, armed |-> FALSE, fired |-> 0]
    ELSE IF Due(s.last_time, t, iv, m)
         THEN [last_time |-> t, armed |-> FALSE, fired |-> 1]
         ELSE [last_time |-> s.last_time, armed |-> FALSE, fired |-> 0]

\* reset() that zeroes last_time instead of making it negative
reset_to_zero(s) == [s EXCEPT !.last_time = 0]

\* a reset() that clears the armed flag as well
reset_disarms(s) == [s EXCEPT !.last_time = -1, !.armed = FALSE]

\* reset(): last_time = -1
reset(s) == [s EXCEPT !.last_time = -1]

\* touch() that forgets the last execution instead of recording now
touch_as_reset(s, t) == [s EXCEPT !.last_time = -1]

\* touch(): last_time = time.perf_counter()
touch(s, t) == [s EXCEPT !.last_time = t]

\* a start_next_tick() that resets last_time as well
start_next_tick_resets(s) == [s EXCEPT !.armed = TRUE, !.last_time = -1]

\* start_next_tick(): armed = True
start_next_tick(s) == [s EXCEPT !.armed = TRUE]

Cells == [last_time |-> last_time, armed |-> armed]

\* The record of the last two operations: op/at the last operation and its
\* time, prev/prevAt the one before; fired the action calls of the last
\* operation and mult the multiplier it drew; pend0 (prevPend0) whether a
\* start_next_tick() was waiting for its fire-attempt when the last (the
\* previous) operation began, pend whether one is waiting now; fire0 the time
\* of the last fire-attempt that fired with no reset, touch or
\* start_next_tick since, as it was when the last operation began (-1: none),
\* lastFire the same now; call0 the time of the last call of action() with
\* no reset since, as it was when the last operation began (-1: none),
\* lastCall the same now.
NoOps == [op |-> "none", at |-> 0, prev |-> "none", prevAt |-> 0,
          fired |-> 0, mult |-> 10, pend0 |-> FALSE, prevPend0 |-> FALSE,
          pend |-> FALSE, fire0 |-> -1, lastFire |-> -1,
          call0 |-> -1, lastCall |-> -1]

Logged(op, fired, m, pend, lastFire) ==
    [op |-> op, at |-> now, prev |-> tk.op, prevAt |-> tk.at,
     fired |-> fired, mult |-> m, pend0 |-> tk.pend, prevPend0 |-> tk.pend0,
     pend |-> pend, fire0 |-> tk.lastFire, lastFire |-> lastFire,
     call0 |-> tk.lastCall,
     lastCall |-> IF op = "tick" /\ fired = 1 THEN now
                  ELSE IF op = "reset" THEN -1 ELSE tk.lastCall]

TickerInit ==
    /\ now \in 0..MaxTime
    /\ last_time = NewTicker.last_time
    /\ armed = NewTicker.armed
    /\ interval \in Intervals
    /\ interval_random_range \in Ranges
    /\ tk = NoOps

TickerIdle ==
    /\ now = 0
    /\ last_time = NewTicker.last_time
    /\ armed = NewTicker.armed
    /\ interval = 10
    /\ interval_random_range = <<10, 10>>
    /\ tk = NoOps

\* time passes between two calls
Advance ==
    /\ now < MaxTime
    /\ now' = now + 1
    /\ UNCHANGED <<last_time, armed, interval, interval_random_range, tk>>
    /\ UNCHANGED <<groupVars, sysVars, planVars, loopVars, injectVars>>

\* ticker()
DoTick ==
    \E m \in Uniform(interval_random_range) :
        LET r == tick(Cells, now, interval, m) IN
        /\ last_time' = r.last_time
        /\ armed' = r.armed
        /\ tk' = Logged("tick", r.fired, m, FALSE,
                        IF r.fired = 1 THEN now ELSE tk.lastFire)
        /\ UNCHANGED <<now, interval, interval_random_range>>
        /\ UNCHANGED <<groupVars, sysVars, planVars, loopVars, injectVars>>

\* ticker.reset()
DoReset ==
    LET r == reset(Cells) IN
    /\ last_time' = r.last_time
    /\ armed' = r.armed
    /\ tk' = Logged("reset", 0, tk.mult, tk.pend, -1)
    /\ UNCHANGED <<now, interval, interval_random_range>>
    /\ UNCHANGED <<groupVars, sysVars, planVars, loopVars, injectVars>>

\* ticker.touch()
DoTouch ==
    LET r == touch(Cells, now) IN
    /\ last_time' = r.last_time
    /\ armed' = r.armed
    /\ tk' = Logged("touch", 0, tk.mult, tk.pend, -1)
    /\ UNCHANGED <<now, interval, interval_random_range>>
    /\ UNCHANGED <<groupVars, sysVars, planVars, loopVars, injectVars>>

\* ticker.start_next_tick()
DoStartNextTick ==
    LET r == start_next_tick(Cells) IN
    /\ last_time' = r.last_time
    /\ armed' = r.armed
    /\ tk' = Logged("start_next_tick", 0, tk.mult, TRUE, -1)
    /\ UNCHANGED <<now, interval, interval_random_range>>
    /\ UNCHANGED <<groupVars, sysVars, planVars, loopVars, injectVars>>

----------------------------------------------------------------------------
\* create_ticker_group

\* What a member of the list is: a ticker of create_ticker, a plain callable
\* (no reset, touch or start_next_tick attribute), or a callable that carries
\* a reset attribute only.
Kinds == {"ticker", "callable", "resettable"}

\* hasattr(ticker, name)
hasattr(m, name) ==
    CASE m.kind = "ticker"     -> name \in {"reset", "touch", "start_next_tick"}
      [] m.kind = "resettable" -> name = "reset"
      [] OTHER                 -> FALSE

NewMember(k) == [kind |-> k, last_time |-> NewTicker.last_time,
                 armed |-> NewTicker.armed]

MemberCells(m) == [last_time |-> m.last_time, armed |-> m.armed]

WithCells(m, c) == [m EXCEPT !.last_time = c.last_time, !.armed = c.armed]

\* ticker(): a plain callable is simply called; the others run tick() with
\* the default interval_random_range (1.0, 1.0)
MemberTick(m, t, iv) ==
    IF m.kind = "callable" THEN m
    ELSE WithCells(m, tick(MemberCells(m), t, iv, 10))

\* tick_all(): for ticker in tickers: ticker()
RECURSIVE tick_all(_, _, _, _)
tick_all(g, i, t, iv) ==
    IF i > Len(g.tickers) THEN g
    ELSE tick_all([tickers |-> [g.tickers EXCEPT ![i] = MemberTick(@, t, iv)],
                   calls |-> Append(g.calls, i)], i + 1, t, iv)

\* reset_all() without the hasattr test: the first member that lacks reset
\* raises AttributeError and ends the loop
RECURSIVE reset_all_unguarded(_, _)
reset_all_unguarded(g, i) ==
    IF i > Len(g.tickers) THEN g
    ELSE IF hasattr(g.tickers[i], "reset")
         THEN reset_all_unguarded(
                  [tickers |-> [g.tickers EXCEPT
                                   ![i] = WithCells(@, reset(MemberCells(@)))],
                   calls |-> Append(g.calls, i)], i + 1)
         ELSE g

\* reset_all(): for ticker in tickers: if hasattr(ticker, "reset"): ...
RECURSIVE reset_all(_, _)
reset_all(g, i) ==
    IF i > Len(g.tickers) THEN g
    ELSE IF hasattr(g.tickers[i], "reset")
         THEN reset_all([tickers |-> [g.tickers EXCEPT
                                   ![i] = WithCells(@, reset(MemberCells(@)))],
                         calls |-> Append(g.calls, i)], i + 1)
         ELSE reset_all(g, i + 1)

\* touch_all()
RECURSIVE touch_all(_, _, _)
touch_all(g, i, t) ==
    IF i > Len(g.tickers) THEN g
    ELSE IF hasattr(g.tickers[i], "touch")
         THEN touch_all([tickers |-> [g.tickers EXCEPT
                                ![i] = WithCells(@, touch(MemberCells(@), t))],
                         calls |-> Append(g.calls, i)], i + 1, t)
         ELSE touch_all(g, i + 1, t)

\* start_next_tick_all()
RECURSIVE start_next_tick_all(_, _)
start_next_tick_all(g, i) ==
    IF i > Len(g.tickers) THEN g
    ELSE IF hasattr(g.tickers[i], "start_next_tick")
         THEN start_next_tick_all(
                  [tickers |-> [g.tickers EXCEPT
                         ![i] = WithCells(@, start_next_tick(MemberCells(@)))],
                   calls |-> Append(g.calls, i)], i + 1)
         ELSE start_next_tick_all(g, i + 1)

\* the intervals of the group's members, in 0.1 s
GroupIntervals == {1, 2}

MemberLists ==
    UNION {[1..n -> {NewMember(k) : k \in Kinds}] : n \in 1..MaxMembers}

NoCalls == [op |-> "none", at |-> 0, calls |-> <<>>, before |-> <<>>]

GroupInit ==
    /\ tickers \in MemberLists
    /\ glog = NoCalls

GroupIdle ==
    /\ tickers = <<NewMember("ticker")>>
    /\ glog = NoCalls

Called(op, g) ==
    /\ tickers' = g.tickers
    /\ glog' = [op |-> op, at |-> now, calls |-> g.calls, before |-> tickers]

Group == [tickers |-> tickers, calls |-> <<>>]

GroupAdvance ==
    /\ now < MaxGroupTime
    /\ now' = now + 1
    /\ UNCHANGED <<last_time, armed, interval, interval_random_range, tk>>
    /\ UNCHANGED <<groupVars, sysVars, planVars, loopVars, injectVars>>

GroupTick ==
    /\ Called("tick", tick_all(Group, 1, now, interval))
    /\ UNCHANGED <<tickerVars, sysVars, planVars, loopVars, injectVars>>

GroupReset ==
    /\ Called("reset", reset_all(Group, 1))
    /\ UNCHANGED <<tickerVars, sysVars, planVars, loopVars, injectVars>>

GroupTouch ==
    /\ Called("touch", touch_all(Group, 1, now))
    /\ UNCHANGED <<tickerVars, sysVars, planVars, loopVars, injectVars>>

GroupStartNextTick ==
    /\ Called("start_next_tick", start_next_tick_all(Group, 1))
    /\ UNCHANGED <<tickerVars, sysVars, planVars, loopVars, injectVars>>

----------------------------------------------------------------------------
\* The foreground thread and the fidget worker thread.

Threads == {"main", "fidget"}

\* What a step emits or ends: by the thread, what the event (a cursor or key
\* primitive, or the end of a call), via its detail, slept the sleep the
\* call made before the event (a range <<lo, hi>> in ms).
Silent == [by |-> "none", what |-> "none", via |-> "", slept |-> <<0, 0>>]
Ev(t, what, via) == [by |-> t, what |-> what, via |-> via, slept |-> <<0, 0>>]

\* the primitives that move the cursor
CursorMoves == {"SetCursorPos", "move_mouse_absolute", "pydirect_move",
                "do_move_mouse_relative"}

mouse_lock == fidget_params.mouse_lock
skip_jitter == fidget_params.skip_jitter

\* no call of move_mouse_with_trajectory in progress
NoMove == [pc |-> "none", i |-> 0, n |-> 0, spoof |-> FALSE, save |-> FALSE,
           via |-> ""]
\* move_mouse_with_trajectory(x, y, save_original_pos=save) has been called
CalledMove(save) == [NoMove EXCEPT !.pc = "lock", !.save = save]

\* no call of _perform_random_click in progress
NoClick == [pc |-> "idle", use_trajectory |-> FALSE,
            restore_position |-> FALSE, original_pos |-> "None",
            i |-> 0, n |-> 0, spoof |-> FALSE]

MainIdle == click.pc = "idle" /\ mv["main"].pc = "none"

\* a trajectory point whose loop asks is_foreground again at every point,
\* so that a point after a fallback may be injected again
PointOutcomesRetrying(spoof) ==
    {[what |-> "move_mouse_absolute", spoof |-> TRUE, raised |-> FALSE],
     [what |-> "none", spoof |-> TRUE, raised |-> FALSE],
     [what |-> "SetCursorPos", spoof |-> FALSE, raised |-> FALSE],
     [what |-> "none", spoof |-> FALSE, raised |-> TRUE]}

\* One trajectory point of the loops of move_mouse_with_trajectory and
\* restore_mouse_position: the set of outcomes [what, spoof, raised].
\* With use_hardware_spoof the point goes to move_mouse_absolute, which
\* injects it, or returns False (nothing injected, the result is not looked
\* at), or raises: then SetCursorPos delivers the point and the flag drops.
\* SetCursorPos itself may raise, which leaves the loop.
PointOutcomes(spoof) ==
    IF spoof
    THEN {[what |-> "move_mouse_absolute", spoof |-> TRUE, raised |-> FALSE],
          [what |-> "none", spoof |-> TRUE, raised |-> FALSE],
          [what |-> "SetCursorPos", spoof |-> FALSE, raised |-> FALSE],
          [what |-> "none", spoof |-> FALSE, raised |-> TRUE]}
    ELSE {[what |-> "SetCursorPos", spoof |-> FALSE, raised |-> FALSE],
          [what |-> "none", spoof |-> FALSE, raised |-> TRUE]}

\* ---- move_mouse_with_trajectory, run by thread t

\* self.fidget_params["mouse_lock"] = True
MoveLock(t) ==
    /\ mv[t].pc = "lock"
    /\ fidget_params' = [fidget_params EXCEPT !.mouse_lock = TRUE]
    /\ mv' = [mv EXCEPT ![t].pc = "probe"]
    /\ ev' = Silent
    /\ UNCHANGED <<afk_config, executor, shared_frame, lalt_pressed,
                   needs_resync, lalt, current_drift, wpc, click>>
    /\ UNCHANGED <<tickerVars, groupVars, planVars, loopVars, injectVars>>

\* GetCursorPos, get_abs_cords, the distance test, _generate_bezier_curve,
\* is_foreground and get_mouse_spoofer
MoveProbe(t) ==
    /\ mv[t].pc = "probe"
    /\ \/ mv' = [mv EXCEPT ![t].pc = "finally", ![t].via = "exception"]
       \/ mv' = [mv EXCEPT ![t].pc = "jump"]
       \/ \E n \in 2..MaxPoints, fg \in BOOLEAN, spoofer \in BOOLEAN :
              mv' = [mv EXCEPT ![t].pc = "point", ![t].i = 1, ![t].n = n,
                               ![t].spoof = (fg /\ spoofer)]
    /\ ev' = Silent
    /\ UNCHANGED <<fidget_params, afk_config, executor, shared_frame,
                   lalt_pressed, needs_resync, lalt, current_drift, wpc, click>>
    /\ UNCHANGED <<tickerVars, groupVars, planVars, loopVars, injectVars>>

\* distance < 5: win32api.SetCursorPos(target_abs); return original_pos
MoveJump(t) ==
    /\ mv[t].pc = "jump"
    /\ \/ /\ mv' = [mv EXCEPT ![t].pc = "finally", ![t].via = "jump"]
          /\ ev' = Ev(t, "SetCursorPos", "jump")
       \/ /\ mv' = [mv EXCEPT ![t].pc = "finally", ![t].via = "exception"]
          /\ ev' = Silent
    /\ UNCHANGED <<fidget_params, afk_config, executor, shared_frame,
                   lalt_pressed, needs_resync, lalt, current_drift, wpc, click>>
    /\ UNCHANGED <<tickerVars, groupVars, planVars, loopVars, injectVars>>

\* one turn of  for i, (x, y) in enumerate(trajectory)  with its sleep
MovePoint(t) ==
    /\ mv[t].pc = "point"
    /\ \E o \in PointOutcomes(mv[t].spoof) :
          /\ mv' = [mv EXCEPT
                ![t].spoof = o.spoof,
                ![t].i = IF ~o.raised /\ mv[t].i < mv[t].n THEN @ + 1 ELSE @,
                ![t].pc = IF o.raised \/ mv[t].i = mv[t].n
                          THEN "finally" ELSE @,
                ![t].via = IF o.raised THEN "exception"
                           ELSE IF mv[t].i = mv[t].n THEN "normal" ELSE @]
          /\ ev' = IF o.what = "none" THEN Silent ELSE Ev(t, o.what, "point")
    /\ UNCHANGED <<fidget_params, afk_config, executor, shared_frame,
                   lalt_pressed, needs_resync, lalt, current_drift, wpc, click>>
    /\ UNCHANGED <<tickerVars, groupVars, planVars, loopVars, injectVars>>

\* a move_mouse_with_trajectory that releases the lock only when it returns
\* normally (no try/finally around the body)
MoveFinallyOnReturnOnly(t) ==
    /\ mv[t].pc = "finally"
    /\ fidget_params' = [fidget_params EXCEPT
                            !.mouse_lock = IF mv[t].via = "exception"
                                           THEN @ ELSE FALSE]
    /\ mv' = [mv EXCEPT ![t].pc = "returned"]
    /\ ev' = Ev(t, "move_end", mv[t].via)
    /\ UNCHANGED <<afk_config, executor, shared_frame, lalt_pressed,
                   needs_resync, lalt, current_drift, wpc, click>>
    /\ UNCHANGED <<tickerVars, groupVars, planVars, loopVars, injectVars>>

\* finally: self.fidget_params["mouse_lock"] = False, then the call ends
MoveFinally(t) ==
    /\ mv[t].pc = "finally"
    /\ fidget_params' = [fidget_params EXCEPT !.mouse_lock = FALSE]
    /\ mv' = [mv EXCEPT ![t].pc = "returned"]
    /\ ev' = Ev(t, "move_end", mv[t].via)
    /\ UNCHANGED <<afk_config, executor, shared_frame, lalt_pressed,
                   needs_resync, lalt, current_drift, wpc, click>>
    /\ UNCHANGED <<tickerVars, groupVars, planVars, loopVars, injectVars>>

\* ---- a direct call of move_mouse_with_trajectory by the foreground
\* thread (rel_move_if_in_win, set_mouse_in_window)

MainMove ==
    /\ MainIdle
    /\ mv' = [mv EXCEPT !["main"] = CalledMove(FALSE)]
    /\ ev' = Silent
    /\ UNCHANGED <<fidget_params, afk_config, executor, shared_frame,
                   lalt_pressed, needs_resync, lalt, current_drift, wpc, click>>
    /\ UNCHANGED <<tickerVars, groupVars, planVars, loopVars, injectVars>>

MainMoveReturn ==
    /\ click.pc = "idle"
    /\ mv["main"].pc = "returned"
    /\ mv' = [mv EXCEPT !["main"] = NoMove]
    /\ ev' = Silent
    /\ UNCHANGED <<fidget_params, afk_config, executor, shared_frame,
                   lalt_pressed, needs_resync, lalt, current_drift, wpc, click>>
    /\ UNCHANGED <<tickerVars, groupVars, planVars, loopVars, injectVars>>

\* ---- _perform_random_click, run by the foreground thread

\* an exception leaves _perform_random_click: nothing catches it, and the
\* statements after the raising one are not run
ClickRaises ==
    /\ click' = NoClick
    /\ ev' = Ev("main", "click_end", "exception")

\* the call, up to  self.fidget_params["mouse_lock"] = True
StartClick ==
    /\ MainIdle
    /\ \E ut \in BOOLEAN, rp \in BOOLEAN :
          click' = [NoClick EXCEPT !.pc = "post_sleep", !.use_trajectory = ut,
                                   !.restore_position = rp]
    /\ fidget_params' = [fidget_params EXCEPT !.mouse_lock = TRUE]
    /\ ev' = Silent
    /\ UNCHANGED <<afk_config, executor, shared_frame, lalt_pressed,
                   needs_resync, lalt, current_drift, wpc, mv>>
    /\ UNCHANGED <<tickerVars, groupVars, planVars, loopVars, injectVars>>

\* self.sleep(_post_sleep), then the branch on use_trajectory (the same in
\* the foreground and the background arm)
ClickPostSleep ==
    /\ click.pc = "post_sleep"
    /\ \/ ClickRaises /\ UNCHANGED mv
       \/ /\ click.use_trajectory
          /\ click' = [click EXCEPT !.pc = "move"]
          /\ mv' = [mv EXCEPT !["main"] = CalledMove(click.restore_position)]
          /\ ev' = Silent
       \/ /\ ~click.use_trajectory
          /\ click' = [click EXCEPT !.pc = "direct"]
          /\ ev' = Silent
          /\ UNCHANGED mv
    /\ UNCHANGED <<fidget_params, afk_config, executor, shared_frame,
                   lalt_pressed, needs_resync, lalt, current_drift, wpc>>
    /\ UNCHANGED <<tickerVars, groupVars, planVars, loopVars, injectVars>>

\* original_pos = self.move_mouse_with_trajectory(...) has ended
ClickAfterMove ==
    /\ click.pc = "move"
    /\ mv["main"].pc = "returned"
    /\ mv' = [mv EXCEPT !["main"] = NoMove]
    /\ IF mv["main"].via = "exception"
       THEN ClickRaises
       ELSE /\ click' = [click EXCEPT
                    !.pc = "press",
                    !.original_pos = IF mv["main"].save THEN "pos" ELSE "None"]
            /\ ev' = Silent
    /\ UNCHANGED <<fidget_params, afk_config, executor, shared_frame,
                   lalt_pressed, needs_resync, lalt, current_drift, wpc>>
    /\ UNCHANGED <<tickerVars, groupVars, planVars, loopVars, injectVars>>

\* use_trajectory false: GetCursorPos when restore_position, then
\* SetCursorPos(abs_pos) or pydirect_interaction.move(x, y)
ClickDirect ==
    /\ click.pc = "direct"
    /\ \/ ClickRaises
       \/ /\ click' = [click EXCEPT
                  !.pc = "press",
                  !.original_pos = IF click.restore_position
                                   THEN "pos" ELSE "None"]
          /\ \E fg \in BOOLEAN :
                ev' = Ev("main", IF fg THEN "pydirect_move" ELSE "SetCursorPos",
                         "direct")
    /\ UNCHANGED <<fidget_params, afk_config, executor, shared_frame,
                   lalt_pressed, needs_resync, lalt, current_drift, wpc, mv>>
    /\ UNCHANGED <<tickerVars, groupVars, planVars, loopVars, injectVars>>

\* the sleep before the click and the click itself: self.click in the
\* background, click_mouse or the pydirect fallback in the foreground
ClickPress ==
    /\ click.pc = "press"
    /\ \/ ClickRaises
       \/ /\ click' = [click EXCEPT !.pc = "after_sleep"]
          /\ ev' = Ev("main", "click", "")
    /\ UNCHANGED <<fidget_params, afk_config, executor, shared_frame,
                   lalt_pressed, needs_resync, lalt, current_drift, wpc, mv>>
    /\ UNCHANGED <<tickerVars, groupVars, planVars, loopVars, injectVars>>

\* self.sleep(_after_sleep) and  if restore_position and original_pos is
\* not None
ClickAfterSleep ==
    /\ click.pc = "after_sleep"
    /\ \/ ClickRaises
       \/ /\ click' = [click EXCEPT
                  !.pc = IF click.restore_position
                            /\ click.original_pos # "None"
                         THEN "restore" ELSE "unlock"]
          /\ ev' = Silent
    /\ UNCHANGED <<fidget_params, afk_config, executor, shared_frame,
                   lalt_pressed, needs_resync, lalt, current_drift, wpc, mv>>
    /\ UNCHANGED <<tickerVars, groupVars, planVars, loopVars, injectVars>>

\* restore_mouse_position up to its loop: GetCursorPos, distance < 5
\* returns, use_trajectory false sets the cursor directly
ClickRestore ==
    /\ click.pc = "restore"
    /\ \/ ClickRaises
       \/ /\ click' = [click EXCEPT !.pc = "unlock"]
          /\ ev' = Silent
       \/ /\ ~click.use_trajectory
          /\ click' = [click EXCEPT !.pc = "unlock"]
          /\ ev' = Ev("main", "SetCursorPos", "restore")
       \/ /\ click.use_trajectory
          /\ \E n \in 2..MaxPoints, fg \in BOOLEAN, spoofer \in BOOLEAN :
                click' = [click EXCEPT !.pc = "restore_point", !.i = 1,
                                       !.n = n, !.spoof = (fg /\ spoofer)]
          /\ ev' = Silent
    /\ UNCHANGED <<fidget_params, afk_config, executor, shared_frame,
                   lalt_pressed, needs_resync, lalt, current_drift, wpc, mv>>
    /\ UNCHANGED <<tickerVars, groupVars, planVars, loopVars, injectVars>>

\* one turn of the loop of restore_mouse_position
ClickRestorePoint ==
    /\ click.pc = "restore_point"
    /\ \E o \in PointOutcomes(click.spoof) :
          IF o.raised
          THEN ClickRaises
          ELSE /\ click' = [click EXCEPT
                     !.spoof = o.spoof,
                     !.i = IF click.i < click.n THEN @ + 1 ELSE @,
                     !.pc = IF click.i = click.n THEN "unlock" ELSE @]
               /\ ev' = IF o.what = "none" THEN Silent
                        ELSE Ev("main", o.what, "restore")
    /\ UNCHANGED <<fidget_params, afk_config, executor, shared_frame,
                   lalt_pressed, needs_resync, lalt, current_drift, wpc, mv>>
    /\ UNCHANGED <<tickerVars, groupVars, planVars, loopVars, injectVars>>

\* self.fidget_params["mouse_lock"] = False, the last statement
ClickUnlock ==
    /\ click.pc = "unlock"
    /\ fidget_params' = [fidget_params EXCEPT !.mouse_lock = FALSE]
    /\ click' = NoClick
    /\ ev' = Ev("main", "click_end", "normal")
    /\ UNCHANGED <<afk_config, executor, shared_frame, lalt_pressed,
                   needs_resync, lalt, current_drift, wpc, mv>>
    /\ UNCHANGED <<tickerVars, groupVars, planVars, loopVars, injectVars>>

\* ---- a foreground caller sets or clears fidget_params["skip_jitter"]
SetSkipJitter ==
    /\ MainIdle
    /\ fidget_params' = [fidget_params EXCEPT !.skip_jitter = ~@]
    /\ ev' = Silent
    /\ UNCHANGED <<afk_config, executor, shared_frame, lalt_pressed,
                   needs_resync, lalt, current_drift, wpc, click, mv>>
    /\ UNCHANGED <<tickerVars, groupVars, planVars, loopVars, injectVars>>

----------------------------------------------------------------------------
\* setup_fidget_action and its worker

Running == executor.current_task /\ ~executor.exit_event

\* in_team() of setup_fidget_action: True when there is no frame, else what
\* self.in_team(frame) finds in it
Frames == {"None", "team", "no_team"}
in_team == shared_frame # "no_team"

\* get_magic_sleep_time(): the four bands it draws from, in ms
get_magic_sleep_time == {<<5, 20>>, <<200, 280>>, <<500, 580>>, <<800, 880>>}

\* the result of a check_alt_logic() that goes through no branch
NoAlt == [lalt_pressed |-> lalt_pressed, needs_resync |-> needs_resync,
          key |-> "none", how |-> "none"]

\* the sleep a branch of check_alt_logic() makes before its key event, in
\* ms: get_magic_sleep_time() before the release of the pause, 0.2 s before
\* the press of the resume (the activate branch sleeps 0.1 s after its
\* press)
SleptBefore(how) ==
    CASE how = "pause"  -> get_magic_sleep_time
      [] how = "resume" -> {<<200, 200>>}
      [] OTHER          -> {<<0, 0>>}

\* check_alt_logic() whose release on leaving the team does not mark the
\* resync as pending
check_alt_logic_unmarked(team) ==
    IF ~afk_config.jitter
    THEN NoAlt
    ELSE IF fidget_params.hold_lalt
    THEN IF ~lalt_pressed
         THEN [NoAlt EXCEPT !.lalt_pressed = TRUE, !.key = "key_down",
                            !.how = "activate"]
         ELSE IF ~needs_resync /\ lalt_pressed /\ ~team
         THEN [NoAlt EXCEPT !.key = "key_up", !.how = "pause"]
         ELSE IF needs_resync /\ team
         THEN [NoAlt EXCEPT !.needs_resync = FALSE, !.key = "key_down",
                            !.how = "resume"]
         ELSE NoAlt
    ELSE IF lalt_pressed
         THEN [NoAlt EXCEPT !.lalt_pressed = FALSE, !.needs_resync = FALSE,
                            !.key = "key_up", !.how = "stop"]
         ELSE NoAlt

\* check_alt_logic() whose stop branch clears lalt_pressed and leaves
\* needs_resync as it is
check_alt_logic_keeps_resync(team) ==
    IF ~afk_config.jitter
    THEN NoAlt
    ELSE IF fidget_params.hold_lalt
    THEN IF ~lalt_pressed
         THEN [NoAlt EXCEPT !.lalt_pressed = TRUE, !.key = "key_down",
                            !.how = "activate"]
         ELSE IF ~needs_resync /\ lalt_pressed /\ ~team
         THEN [NoAlt EXCEPT !.needs_resync = TRUE, !.key = "key_up",
                            !.how = "pause"]
         ELSE IF needs_resync /\ team
         THEN [NoAlt EXCEPT !.needs_resync = FALSE, !.key = "key_down",
                            !.how = "resume"]
         ELSE NoAlt
    ELSE IF lalt_pressed
         THEN [NoAlt EXCEPT !.lalt_pressed = FALSE, !.key = "key_up",
                            !.how = "stop"]
         ELSE NoAlt

\* check_alt_logic() whose pause test is an if of its own after the
\* activate branch: a call that presses the key outside the team goes on
\* to release it
check_alt_logic_falls_through(team) ==
    IF ~afk_config.jitter
    THEN NoAlt
    ELSE IF fidget_params.hold_lalt
    THEN IF ~lalt_pressed
         THEN IF ~needs_resync /\ ~team
              THEN [NoAlt EXCEPT !.lalt_pressed = TRUE,
                                 !.needs_resync = TRUE, !.key = "key_up",
                                 !.how = "pause"]
              ELSE [NoAlt EXCEPT !.lalt_pressed = TRUE, !.key = "key_down",
                                 !.how = "activate"]
         ELSE IF ~needs_resync /\ lalt_pressed /\ ~team
         THEN [NoAlt EXCEPT !.needs_resync = TRUE, !.key = "key_up",
                            !.how = "pause"]
         ELSE IF needs_resync /\ team
         THEN [NoAlt EXCEPT !.needs_resync = FALSE, !.key = "key_down",
                            !.how = "resume"]
         ELSE NoAlt
    ELSE IF lalt_pressed
         THEN [NoAlt EXCEPT !.lalt_pressed = FALSE, !.needs_resync = FALSE,
                            !.key = "key_up", !.how = "stop"]
         ELSE NoAlt

\* check_alt_logic(): the new flags, the modifier key event sent (key) and
\* the branch taken (how); team is what in_team() answers when it is asked
check_alt_logic(team) ==
    IF ~afk_config.jitter
    THEN NoAlt
    ELSE IF fidget_params.hold_lalt
    THEN IF ~lalt_pressed
         THEN [NoAlt EXCEPT !.lalt_pressed = TRUE, !.key = "key_down",
                            !.how = "activate"]
         ELSE IF ~needs_resync /\ lalt_pressed /\ ~team
         THEN [NoAlt EXCEPT !.needs_resync = TRUE, !.key = "key_up",
                            !.how = "pause"]
         ELSE IF needs_resync /\ team
         THEN [NoAlt EXCEPT !.needs_resync = FALSE, !.key = "key_down",
                            !.how = "resume"]
         ELSE NoAlt
    ELSE IF lalt_pressed
         THEN [NoAlt EXCEPT !.lalt_pressed = FALSE, !.needs_resync = FALSE,
                            !.key = "key_up", !.how = "stop"]
         ELSE NoAlt

\* the last two entries of a list of key events
LastTwo(s) == IF Len(s) <= 2 THEN s ELSE SubSeq(s, Len(s) - 1, Len(s))

\* one call of check_alt_logic(): the flags it leaves, the modifier key
\* event send_key_raw("lalt", ...) delivers for it, and the sleep before it
RunCheckAlt ==
    LET r == check_alt_logic(in_team) IN
    /\ lalt_pressed' = r.lalt_pressed
    /\ needs_resync' = r.needs_resync
    /\ lalt' = IF r.key = "none" THEN lalt ELSE LastTwo(Append(lalt, r.key))
    /\ \E slept \in SleptBefore(r.how) :
          ev' = IF r.key = "none" THEN Silent
                ELSE [Ev("fidget", r.key, r.how) EXCEPT !.slept = slept]

\* self.thread_pool_executor.submit(_fidget_worker)
SetupFidgetAction ==
    /\ wpc = "none"
    /\ wpc' = "loop"
    /\ ev' = Silent
    /\ UNCHANGED <<fidget_params, afk_config, executor, shared_frame,
                   lalt_pressed, needs_resync, lalt, current_drift, click, mv>>
    /\ UNCHANGED <<tickerVars, groupVars, planVars, loopVars, injectVars>>

\* a loop that looks at the pause before it looks at the task and the exit
\* event
WorkerLoopPauseFirst ==
    /\ wpc = "loop"
    /\ wpc' = IF executor.paused THEN "loop"
              ELSE IF ~Running THEN "stopped" ELSE "alt"
    /\ iter' = IF wpc' = "alt" THEN <<>> ELSE iter
    /\ ev' = Silent
    /\ UNCHANGED key
    /\ UNCHANGED <<fidget_params, afk_config, executor, shared_frame,
                   lalt_pressed, needs_resync, lalt, current_drift, click, mv>>
    /\ UNCHANGED <<tickerVars, groupVars, planVars, pool, moved, injectVars>>

\* the test of the while loop, and the pause
WorkerLoop ==
    /\ wpc = "loop"
    /\ wpc' = IF ~Running THEN "stopped"
              ELSE IF executor.paused THEN "loop" ELSE "alt"
    /\ iter' = IF wpc' = "alt" THEN <<>> ELSE iter
    /\ ev' = Silent
    /\ UNCHANGED key
    /\ UNCHANGED <<fidget_params, afk_config, executor, shared_frame,
                   lalt_pressed, needs_resync, lalt, current_drift, click, mv>>
    /\ UNCHANGED <<tickerVars, groupVars, planVars, pool, moved, injectVars>>

\* check_alt_logic() of the loop body
WorkerCheckAlt ==
    /\ wpc = "alt"
    /\ RunCheckAlt
    /\ wpc' = "jitter"
    /\ iter' = Append(iter, "check_alt_logic")
    /\ UNCHANGED key
    /\ UNCHANGED <<fidget_params, afk_config, executor, shared_frame,
                   current_drift, click, mv>>
    /\ UNCHANGED <<tickerVars, groupVars, planVars, pool, moved, injectVars>>

\* the guards without the test of skip_jitter
JitterSkipsLockOnly == mouse_lock \/ ~afk_config.jitter

\* the two guards of perform_mouse_jitter: whether the drift step is skipped
JitterSkips == mouse_lock \/ ~afk_config.jitter \/ skip_jitter

\* perform_mouse_jitter up to set_mouse_in_window: a skipped step returns
\* current_drift as it is
JitterGuard ==
    /\ wpc = "jitter"
    /\ IF JitterSkips
       THEN /\ wpc' = "key_down"
            /\ ev' = Ev("fidget", "jitter", "skipped")
            /\ iter' = Append(iter, "perform_mouse_jitter")
       ELSE /\ wpc' = IF afk_config.lock_in_window THEN "clamp" ELSE "drift"
            /\ ev' = Silent
            /\ UNCHANGED iter
    /\ UNCHANGED key
    /\ UNCHANGED <<fidget_params, afk_config, executor, shared_frame,
                   lalt_pressed, needs_resync, lalt, current_drift, click, mv>>
    /\ UNCHANGED <<tickerVars, groupVars, planVars, pool, moved, injectVars>>

\* set_mouse_in_window(): nothing when the cursor is in the window,
\* else move_mouse_with_trajectory to a random point of it
JitterClamp ==
    /\ wpc = "clamp"
    /\ \/ /\ wpc' = "drift"
          /\ UNCHANGED mv
       \/ /\ wpc' = "clamp_move"
          /\ mv' = [mv EXCEPT !["fidget"] = CalledMove(FALSE)]
    /\ ev' = Silent
    /\ UNCHANGED <<fidget_params, afk_config, executor, shared_frame,
                   lalt_pressed, needs_resync, lalt, current_drift, click>>
    /\ UNCHANGED <<tickerVars, groupVars, planVars, loopVars, injectVars>>

\* the move_mouse_with_trajectory of set_mouse_in_window has ended; an
\* exception is caught nowhere and ends _fidget_worker
JitterAfterClamp ==
    /\ wpc = "clamp_move"
    /\ mv["fidget"].pc = "returned"
    /\ mv' = [mv EXCEPT !["fidget"] = NoMove]
    /\ wpc' = IF mv["fidget"].via = "exception" THEN "dead" ELSE "drift"
    /\ ev' = Silent
    /\ UNCHANGED <<fidget_params, afk_config, executor, shared_frame,
                   lalt_pressed, needs_resync, lalt, current_drift, click>>
    /\ UNCHANGED <<tickerVars, groupVars, planVars, loopVars, injectVars>>

\* targets that are one step away from the accumulator once it is far out
DriftTargetsNudging(d) ==
    IF d[1] * d[1] + d[2] * d[2] < 4
    THEN {-3, -2, 2, 3} \X {-3, -2, 2, 3}
    ELSE {<<d[1] + a, d[2] + b>> : a \in -1..1, b \in -1..1}

\* targets with the far-out ones drawn up to a squared magnitude of 8
DriftTargetsLateSnap(d) ==
    IF d[1] * d[1] + d[2] * d[2] < 9
    THEN {-3, -2, 2, 3} \X {-3, -2, 2, 3}
    ELSE (-1..1) \X (-1..1)

\* the targets of a drift step
DriftTargets(d) ==
    IF d[1] * d[1] + d[2] * d[2] < 4
    THEN {-3, -2, 2, 3} \X {-3, -2, 2, 3}
    ELSE (-1..1) \X (-1..1)

\* the relative moves of a drift step towards target
DriftMoves(d, target) ==
    LET move == <<target[1] - d[1], target[2] - d[2]>> IN
    IF move = <<0, 0>> THEN {<<1, 0>>, <<-1, 0>>} ELSE {move}

\* the rest of perform_mouse_jitter: do_move_mouse_relative(move_x, move_y)
\* and the update of current_drift
JitterDrift ==
    /\ wpc = "drift"
    /\ \E target \in DriftTargets(current_drift) :
          \E move \in DriftMoves(current_drift, target) :
              /\ moved' = <<moved[1] + move[1], moved[2] + move[2]>>
              /\ current_drift' = <<current_drift[1] + move[1],
                                    current_drift[2] + move[2]>>
    /\ wpc' = "key_down"
    /\ iter' = Append(iter, "perform_mouse_jitter")
    /\ UNCHANGED key
    /\ ev' = Ev("fidget", "do_move_mouse_relative", "drift")
    /\ UNCHANGED <<fidget_params, afk_config, executor, shared_frame,
                   lalt_pressed, needs_resync, lalt, click, mv>>
    /\ UNCHANGED <<tickerVars, groupVars, planVars, pool, injectVars>>

\* the keys drawn from random_key_list: the Geniemon key and a numeric key
random_key_list == {"Geniemon Key", "1"}
\* no key press in progress
NoKey == ""
\* what a release of key k adds to iter, in a press of the key  key
Released(k) == IF k = key THEN "key_up" ELSE "key_up_other"

\* perform_random_key_press: key = random.choice(key_list),
\* send_key_raw(key, True) and the hold
KeyDown ==
    /\ wpc = "key_down"
    /\ wpc' = "key_up"
    /\ key' \in random_key_list
    /\ iter' = Append(iter, "key_down")
    /\ ev' = Ev("fidget", "key_down", "random")
    /\ UNCHANGED <<fidget_params, afk_config, executor, shared_frame,
                   lalt_pressed, needs_resync, lalt, current_drift, click, mv>>
    /\ UNCHANGED <<tickerVars, groupVars, planVars, pool, moved, injectVars>>

\* a key press that draws the key again for the release
KeyUpDrawsAgain ==
    /\ wpc = "key_up"
    /\ wpc' = "sleep"
    /\ key' = NoKey
    /\ \E k \in random_key_list : iter' = Append(iter, Released(k))
    /\ ev' = Ev("fidget", "key_up", "random")
    /\ UNCHANGED <<fidget_params, afk_config, executor, shared_frame,
                   lalt_pressed, needs_resync, lalt, current_drift, click, mv>>
    /\ UNCHANGED <<tickerVars, groupVars, planVars, pool, moved, injectVars>>

\* perform_random_key_press: send_key_raw(key, False) and the magic sleep
KeyUp ==
    /\ wpc = "key_up"
    /\ wpc' = "sleep"
    /\ key' = NoKey
    /\ iter' = Append(iter, Released(key))
    /\ ev' = Ev("fidget", "key_up", "random")
    /\ UNCHANGED <<fidget_params, afk_config, executor, shared_frame,
                   lalt_pressed, needs_resync, lalt, current_drift, click, mv>>
    /\ UNCHANGED <<tickerVars, groupVars, planVars, pool, moved, injectVars>>

\* one turn of smart_sleep: the deadline has passed (True), or the task is
\* gone (False, break), or check_alt_logic() and 0.1 s of sleep
SmartSleep ==
    /\ wpc = "sleep"
    /\ \/ /\ wpc' = "loop"
          /\ ev' = Silent
          /\ UNCHANGED <<lalt_pressed, needs_resync, lalt>>
       \/ /\ ~Running
          /\ wpc' = "stopped"
          /\ ev' = Silent
          /\ UNCHANGED <<lalt_pressed, needs_resync, lalt>>
       \/ /\ Running
          /\ RunCheckAlt
          /\ wpc' = "sleep"
    /\ UNCHANGED <<fidget_params, afk_config, executor, shared_frame,
                   current_drift, click, mv>>
    /\ UNCHANGED <<tickerVars, groupVars, planVars, loopVars, injectVars>>

----------------------------------------------------------------------------
\* The motion executor with its positions: one call at a time of
\* move_mouse_with_trajectory, move_mouse_abs_with_trajectory or
\* restore_mouse_position.

MotionFns == {"move_mouse_with_trajectory", "move_mouse_abs_with_trajectory",
              "restore_mouse_position"}

\* None, where a position is expected
None == <<>>
\* what win32api.GetCursorPos() answers
CursorPositions == {<<0, 0>>, <<1, 0>>}
\* the positions a caller passes
Targets == {<<0, 0>>, <<4, 2>>, <<3, 4>>, <<300, 0>>}
\* the screen position of the window's origin
WindowOrigin == <<1, 0>>
\* capture.get_abs_cords(x, y): window coordinates to screen coordinates
get_abs_cords(p) == <<p[1] + WindowOrigin[1], p[2] + WindowOrigin[2]>>

\* the square of the distance the executor computes
Dist2(a, b) == (b[1] - a[1]) * (b[1] - a[1]) + (b[2] - a[2]) * (b[2] - a[2])
\* distance < 5, for integer coordinates
Near(a, b) == Dist2(a, b) < 25

\* the trajectory handed back by _generate_bezier_curve, reduced to n
\* points: the start, n - 2 points on the way, the end
Plan(a, b, n) ==
    [k \in 1..n |->
        IF k = 1 THEN a
        ELSE IF k = n THEN b
        ELSE <<a[1] + ((b[1] - a[1]) * (k - 1)) \div (n - 1),
               a[2] + ((b[2] - a[2]) * (k - 1)) \div (n - 1) + 1>>]

\* The frame of a call: sent lists the cursor primitives that were
\* delivered ([prim, pos, i], i the index of the trajectory point, 0 for a
\* direct set); false_at is the first point on which move_mouse_absolute
\* returned False, fallback_at the point from which use_hardware_spoof is
\* false after it was asked for (0: none).
IdleMotion ==
    [pc |-> "none", fn |-> "", current_pos |-> <<0, 0>>, target |-> None,
     trajectory |-> <<>>, i |-> 0, use_hardware_spoof |-> FALSE,
     sent |-> <<>>, false_at |-> 0, fallback_at |-> 0, via |-> ""]

Delivered(prim, pos, i) == [prim |-> prim, pos |-> pos, i |-> i]

\* the call: the arguments, and mouse_lock = True in
\* move_mouse_with_trajectory
MotionCall ==
    /\ motion.pc \in {"none", "ended"}
    /\ \E fn \in MotionFns, tgt \in Targets \cup {None} :
          /\ tgt = None => fn = "restore_mouse_position"
          /\ motion' = [IdleMotion EXCEPT
                !.pc = "start", !.fn = fn,
                !.target = IF fn = "move_mouse_with_trajectory"
                           THEN get_abs_cords(tgt) ELSE tgt]
          /\ fidget_params' =
                IF fn = "move_mouse_with_trajectory"
                THEN [fidget_params EXCEPT !.mouse_lock = TRUE]
                ELSE fidget_params
    /\ UNCHANGED <<afk_config, executor, shared_frame, lalt_pressed,
                   needs_resync, lalt, current_drift, wpc, click, mv, ev>>
    /\ UNCHANGED <<tickerVars, groupVars, bezier, loopVars, injectVars>>

\* the start of a call whose restore_mouse_position sets the cursor also
\* when it is within 5 of the saved position
MotionStartRestoreSets ==
    /\ motion.pc = "start"
    /\ \E cur \in CursorPositions, use_trajectory \in BOOLEAN,
          n \in 2..MaxPoints, fg \in BOOLEAN, spoofer \in BOOLEAN :
          LET fn == motion.fn
              target == motion.target
              stay == [motion EXCEPT !.current_pos = cur, !.pc = "done"]
              jump == [stay EXCEPT
                          !.sent = <<Delivered("SetCursorPos", target, 0)>>]
          IN
          IF fn = "restore_mouse_position" /\ target = None
          THEN motion' = [motion EXCEPT !.pc = "done"]
          ELSE \/ motion' = [motion EXCEPT !.pc = "raised"]
               \/ /\ Near(cur, target)
                  /\ motion' = IF fn = "restore_mouse_position"
                               THEN jump
                               ELSE jump
               \/ /\ ~Near(cur, target)
                  /\ fn = "restore_mouse_position" /\ ~use_trajectory
                  /\ motion' = jump
               \/ /\ ~Near(cur, target)
                  /\ fn = "restore_mouse_position" => use_trajectory
                  /\ LET ask == fn # "move_mouse_abs_with_trajectory" /\ fg
                     IN  motion' = [motion EXCEPT
                            !.current_pos = cur, !.pc = "loop", !.i = 1,
                            !.trajectory = Plan(cur, target, n),
                            !.use_hardware_spoof = ask /\ spoofer,
                            !.fallback_at = IF ask /\ ~spoofer
                                            THEN 1 ELSE 0]
    /\ UNCHANGED sysVars
    /\ UNCHANGED <<tickerVars, groupVars, bezier, loopVars, injectVars>>

\* The call up to its loop: restore_mouse_position returns when
\* original_pos is None; GetCursorPos (which may raise) and the distance;
\* distance < 5 sets the cursor once (restore_mouse_position returns); a
\* restore with use_trajectory false sets the cursor once; else the
\* trajectory is planned, and is_foreground and get_mouse_spoofer decide
\* use_hardware_spoof (move_mouse_abs_with_trajectory asks for neither).
MotionStart ==
    /\ motion.pc = "start"
    /\ \E cur \in CursorPositions, use_trajectory \in BOOLEAN,
          n \in 2..MaxPoints, fg \in BOOLEAN, spoofer \in BOOLEAN :
          LET fn == motion.fn
              target == motion.target
              stay == [motion EXCEPT !.current_pos = cur, !.pc = "done"]
              jump == [stay EXCEPT
                          !.sent = <<Delivered("SetCursorPos", target, 0)>>]
          IN
          IF fn = "restore_mouse_position" /\ target = None
          THEN motion' = [motion EXCEPT !.pc = "done"]
          ELSE \/ motion' = [motion EXCEPT !.pc = "raised"]
               \/ /\ Near(cur, target)
                  /\ motion' = IF fn = "restore_mouse_position"
                               THEN stay
                               ELSE jump
               \/ /\ ~Near(cur, target)
                  /\ fn = "restore_mouse_position" /\ ~use_trajectory
                  /\ motion' = jump
               \/ /\ ~Near(cur, target)
                  /\ fn = "restore_mouse_position" => use_trajectory
                  /\ LET ask == fn # "move_mouse_abs_with_trajectory" /\ fg
                     IN  motion' = [motion EXCEPT
                            !.current_pos = cur, !.pc = "loop", !.i = 1,
                            !.trajectory = Plan(cur, target, n),
                            !.use_hardware_spoof = ask /\ spoofer,
                            !.fallback_at = IF ask /\ ~spoofer
                                            THEN 1 ELSE 0]
    /\ UNCHANGED sysVars
    /\ UNCHANGED <<tickerVars, groupVars, bezier, loopVars, injectVars>>

\* one turn of  for i, (x, y) in enumerate(trajectory)
MotionPoint ==
    /\ motion.pc = "loop"
    /\ \E o \in PointOutcomes(motion.use_hardware_spoof) :
          LET i == motion.i
              spoof == motion.use_hardware_spoof
          IN  motion' = [motion EXCEPT
                !.use_hardware_spoof = o.spoof,
                !.sent = IF o.what = "none" THEN @
                         ELSE Append(@, Delivered(o.what,
                                                  motion.trajectory[i], i)),
                !.false_at = IF @ = 0 /\ o.spoof /\ o.what = "none"
                             THEN i ELSE @,
                !.fallback_at = IF @ = 0 /\ spoof /\ ~o.spoof THEN i ELSE @,
                !.i = IF ~o.raised /\ i < Len(motion.trajectory)
                      THEN i + 1 ELSE i,
                !.pc = IF o.raised THEN "raised"
                       ELSE IF i = Len(motion.trajectory) THEN "done"
                       ELSE "loop"]
    /\ UNCHANGED sysVars
    /\ UNCHANGED <<tickerVars, groupVars, bezier, loopVars, injectVars>>

\* the call ends, with a return or with the exception; the finally of
\* move_mouse_with_trajectory: mouse_lock = False
MotionEnd ==
    /\ motion.pc \in {"done", "raised"}
    /\ motion' = [motion EXCEPT
          !.pc = "ended",
          !.via = IF motion.pc = "raised" THEN "exception" ELSE "normal"]
    /\ fidget_params' =
          IF motion.fn = "move_mouse_with_trajectory"
          THEN [fidget_params EXCEPT !.mouse_lock = FALSE]
          ELSE fidget_params
    /\ UNCHANGED <<afk_config, executor, shared_frame, lalt_pressed,
                   needs_resync, lalt, current_drift, wpc, click, mv, ev>>
    /\ UNCHANGED <<tickerVars, groupVars, bezier, loopVars, injectVars>>

----------------------------------------------------------------------------
\* _generate_bezier_curve, one call at a time. Coordinates are integers;
\* the curve parameter t = i / (num_points - 1) is kept as the fraction it
\* is, so that a sample is the quotient of two integers, truncated by int().

\* the start and the ends the planner is called with (distance >= 5)
PlanStarts == {<<0, 0>>}
PlanEnds == {<<5, 0>>, <<3, 4>>, <<0, -7>>, <<-9, 2>>, <<300, 0>>,
             <<1600, 0>>}

\* int(a / b) for b > 0: the quotient truncated towards zero
Trunc(a, b) == IF a >= 0 THEN a \div b ELSE -((-a) \div b)

\* int(distance / 25): the largest k with (25 k)^2 <= distance^2
DistanceOver25(d2) ==
    CHOOSE k \in 0..(d2 \div 625) :
        625 * k * k <= d2 /\ 625 * (k + 1) * (k + 1) > d2

\* int(distance)
IntDistance(d2) ==
    CHOOSE k \in 0..d2 : k * k <= d2 /\ (k + 1) * (k + 1) > d2

Max(a, b) == IF a >= b THEN a ELSE b
Min(a, b) == IF a <= b THEN a ELSE b
Sign(a) == IF a > 0 THEN 1 ELSE IF a < 0 THEN -1 ELSE 0

\* the number of samples with a lower limit of 2 instead of 8
NumPointsFloorTwo(d2) == Max(2, Min(60, DistanceOver25(d2)))

\* num_points = max(8, min(60, int(distance / 25)))
NumPoints(d2) == Max(8, Min(60, DistanceOver25(d2)))

\* the direction the lateral offsets and the wave are applied in: the
\* movement turned by 90 degrees (its signs, not normalised)
Perp(a, b) == <<-Sign(b[2] - a[2]), Sign(b[1] - a[1])>>

\* the lateral offsets drawn for the first control point: up to about a
\* fifth of the distance to either side, or none
Laterals(d2) ==
    LET r == Max(1, IntDistance(d2) \div 5) IN {-r, 0, r}
\* the second control point's offset: the opposite side at half the size
\* (S curve) or the same side at the same size (C curve)
Laterals2(lat1) == {-Trunc(lat1, 2), lat1}

\* a control point: the fraction num/4 of the way, moved sideways by lat
ControlPoint(a, b, num, lat) ==
    <<a[1] + Trunc((b[1] - a[1]) * num, 4) + Perp(a, b)[1] * lat,
      a[2] + Trunc((b[2] - a[2]) * num, 4) + Perp(a, b)[2] * lat>>

\* 0.1 < t < 0.9 for t = i / m
InWaveRange(i, m) == 10 * i > m /\ 10 * i < 9 * m

\* One coordinate (c = 1 for x, 2 for y) of sample i of m + 1 samples:
\* the cubic Bezier value, plus the wave of size w along Perp where
\* 0.1 < t < 0.9, truncated by int().
SampleCoord(f, i, c) ==
    LET m == f.num_points - 1
        a == m - i
        num ==   a * a * a * f.start[c]
               + 3 * a * a * i * f.ctrl1[c]
               + 3 * a * i * i * f.ctrl2[c]
               + i * i * i * f.end[c]
        wave == IF InWaveRange(i, m)
                THEN Perp(f.start, f.end)[c] * f.wave
                        * (IF i % 2 = 1 THEN 1 ELSE -1)
                ELSE 0
    IN  Trunc(num + wave * m * m * m, m * m * m)

\* points.append((int(x), int(y))) for sample i (from 0)
SamplePoint(f, i) == <<SampleCoord(f, i, 1), SampleCoord(f, i, 2)>>

\* a de-duplication that keeps every point
KeepAll(optimized, pt) == Append(optimized, pt)

\* if points[i] != optimized_points[-1]: optimized_points.append(points[i])
Keep(optimized, pt) ==
    IF pt # optimized[Len(optimized)] THEN Append(optimized, pt)
    ELSE optimized

NoBezier ==
    [pc |-> "none", start |-> <<0, 0>>, end |-> <<0, 0>>, num_points |-> 0,
     ctrl1 |-> <<0, 0>>, ctrl2 |-> <<0, 0>>, wave |-> 0, points |-> <<>>,
     optimized_points |-> <<>>, i |-> 0]

\* the call, up to the loop: the distance, num_points, the two control
\* points with their random offsets, and the wave
BezierCall ==
    /\ bezier.pc \in {"none", "returned"}
    /\ \E a \in PlanStarts, b \in PlanEnds :
          \E lat1 \in Laterals(Dist2(a, b)), w \in {0, 1} :
             \E lat2 \in Laterals2(lat1) :
                bezier' = [NoBezier EXCEPT
                    !.pc = "sample", !.start = a, !.end = b,
                    !.num_points = NumPoints(Dist2(a, b)),
                    !.ctrl1 = ControlPoint(a, b, 1, lat1),
                    !.ctrl2 = ControlPoint(a, b, 3, lat2),
                    !.wave = w]
    /\ UNCHANGED <<tickerVars, groupVars, sysVars, motion, loopVars,
                   injectVars>>

\* one turn of  for i in range(num_points)
BezierSample ==
    /\ bezier.pc = "sample"
    /\ LET pts == Append(bezier.points, SamplePoint(bezier, Len(bezier.points)))
       IN  bezier' = [bezier EXCEPT
              !.points = pts,
              !.pc = IF Len(pts) = bezier.num_points THEN "dedup" ELSE @,
              !.optimized_points = IF Len(pts) = bezier.num_points
                                   THEN <<pts[1]>> ELSE @,
              !.i = IF Len(pts) = bezier.num_points THEN 1 ELSE @]
    /\ UNCHANGED <<tickerVars, groupVars, sysVars, motion, loopVars,
                   injectVars>>

\* one turn of  for i in range(1, len(points)) , and the return after the
\* last one
BezierDedup ==
    /\ bezier.pc = "dedup"
    /\ bezier' = [bezier EXCEPT
          !.optimized_points = Keep(@, bezier.points[bezier.i + 1]),
          !.i = @ + 1,
          !.pc = IF bezier.i + 1 = Len(bezier.points) THEN "returned" ELSE @]
    /\ UNCHANGED <<tickerVars, groupVars, sysVars, motion, loopVars,
                   injectVars>>

----------------------------------------------------------------------------
\* What the worker reads and others write: the hold_lalt entry of
\* fidget_params and the jitter setting of afk_config (read at every check),
\* the frame in_team() looks at, and the executor's current_task, exit_event
\* and paused.

\* a task switches the modifier hold on or off
SetHoldLalt ==
    /\ fidget_params' = [fidget_params EXCEPT !.hold_lalt = ~@]
    /\ ev' = Silent
    /\ UNCHANGED <<afk_config, executor, shared_frame, lalt_pressed,
                   needs_resync, lalt, current_drift, wpc, click, mv>>
    /\ UNCHANGED <<tickerVars, groupVars, planVars, loopVars, injectVars>>

\* the jitter setting is switched on or off
SetJitter ==
    /\ afk_config' = [afk_config EXCEPT !.jitter = ~@]
    /\ ev' = Silent
    /\ UNCHANGED <<fidget_params, executor, shared_frame, lalt_pressed,
                   needs_resync, lalt, current_drift, wpc, click, mv>>
    /\ UNCHANGED <<tickerVars, groupVars, planVars, loopVars, injectVars>>

\* a new frame is captured, or the frame is dropped
NewFrame ==
    /\ shared_frame' \in Frames \ {shared_frame}
    /\ ev' = Silent
    /\ UNCHANGED <<fidget_params, afk_config, executor, lalt_pressed,
                   needs_resync, lalt, current_drift, wpc, click, mv>>
    /\ UNCHANGED <<tickerVars, groupVars, planVars, loopVars, injectVars>>

\* executor.paused is set or cleared
SetPaused ==
    /\ executor' = [executor EXCEPT !.paused = ~@]
    /\ ev' = Silent
    /\ UNCHANGED <<fidget_params, afk_config, shared_frame, lalt_pressed,
                   needs_resync, lalt, current_drift, wpc, click, mv>>
    /\ UNCHANGED <<tickerVars, groupVars, planVars, loopVars, injectVars>>

\* executor.current_task becomes None
TaskEnds ==
    /\ executor.current_task
    /\ executor' = [executor EXCEPT !.current_task = FALSE]
    /\ ev' = Silent
    /\ UNCHANGED <<fidget_params, afk_config, shared_frame, lalt_pressed,
                   needs_resync, lalt, current_drift, wpc, click, mv>>
    /\ UNCHANGED <<tickerVars, groupVars, planVars, loopVars, injectVars>>

\* executor.exit_event is set
SetExitEvent ==
    /\ ~executor.exit_event
    /\ executor' = [executor EXCEPT !.exit_event = TRUE]
    /\ ev' = Silent
    /\ UNCHANGED <<fidget_params, afk_config, shared_frame, lalt_pressed,
                   needs_resync, lalt, current_drift, wpc, click, mv>>
    /\ UNCHANGED <<tickerVars, groupVars, planVars, loopVars, injectVars>>

----------------------------------------------------------------------------
\* The hardware spoofers: the module globals behind get_keyboard_spoofer and
\* get_mouse_spoofer, the callers that ask for them, and the calls
\* click_mouse and move_mouse_absolute of MouseHardwareSpoofer.

Devices == {"keyboard", "mouse"}

\* GetSystemMetrics(0), GetSystemMetrics(1): the screens tried
Screens == {<<1920, 1080>>, <<1366, 768>>}

\* _keyboard_spoofer = None ; _mouse_spoofer = None  (an entry is TRUE when
\* the global holds an instance; screen is the mouse instance's
\* screen_width and screen_height)
NoSpoofers == [keyboard |-> FALSE, mouse |-> FALSE, screen |-> <<0, 0>>]

\* The globals after the constructor of the spoofer of device d has
\* returned, s the screen size it read.
Constructed(d, s) ==
    IF d = "mouse"
    THEN [spoofers EXCEPT !.mouse = TRUE, !.screen = s]
    ELSE [spoofers EXCEPT !.keyboard = TRUE]

\* get_keyboard_spoofer() / get_mouse_spoofer(): the instance held by the
\* global is returned; when the global is None the constructor runs, and
\* either returns (the global is set) or raises (the global stays None).
\* The outcomes: the new globals and what happened to the construction.
get_spoofer(d) ==
    IF spoofers[d]
    THEN {[globals |-> spoofers, construct |-> "none"]}
    ELSE {[globals |-> Constructed(d, s), construct |-> "ok"] : s \in Screens}
            \cup {[globals |-> spoofers, construct |-> "failed"]}

\* The last acquisition: fn the caller, device the spoofer it wants, asked
\* whether it called get_..._spoofer(), construct what the constructor did
\* in that call ("none": it did not run), spoofed whether the caller went on
\* to a spoofed injection, failed the devices whose construction has failed
\* so far, failed0 the same before this call.
\* For send_key_raw also: sendinput what send_key_input() did ("none": not
\* called; "raised": an exception before its SendInput; "refused": SendInput
\* returned 0 and it returned False; "injected": it returned True), posted
\* whether interaction.post() was called.
NoInj == [fn |-> "", device |-> "", asked |-> FALSE, construct |-> "none",
          spoofed |-> FALSE, failed |-> {}, failed0 |-> {},
          sendinput |-> "none", posted |-> FALSE]

Acquired(fn, d, asked, construct, spoofed) ==
    [fn |-> fn, device |-> d, asked |-> asked, construct |-> construct,
     spoofed |-> spoofed,
     failed |-> IF construct = "failed" THEN inj.failed \cup {d}
                ELSE inj.failed,
     failed0 |-> inj.failed,
     sendinput |-> "none", posted |-> FALSE]

\* spoofer.send_key_input(vk_code, is_down) as send_key_raw sees it
send_key_input == {"raised", "refused", "injected"}

\* a send_key_raw that goes on to interaction.post() after a successful
\* injection as well
SendKeyRawAlwaysPosts ==
    /\ \/ /\ inj' = [Acquired("send_key_raw", "keyboard", FALSE, "none", FALSE)
                       EXCEPT !.posted = TRUE]
          /\ UNCHANGED spoofers
       \/ \E o \in get_spoofer("keyboard") :
             \E r \in IF o.construct = "failed"
                      THEN {"none"} ELSE send_key_input :
                /\ spoofers' = o.globals
                /\ inj' = [Acquired("send_key_raw", "keyboard", TRUE,
                                    o.construct, o.construct # "failed")
                               EXCEPT !.sendinput = r, !.posted = TRUE]
    /\ UNCHANGED <<tickerVars, groupVars, sysVars, planVars, loopVars, mcall>>

\* send_key_raw(key, is_down): in the foreground get_hardware_spoofer() and
\* send_key_input(); PostMessage in the background, when the spoofer cannot
\* be had, and when send_key_input returns False or raises
SendKeyRaw ==
    /\ \/ /\ inj' = [Acquired("send_key_raw", "keyboard", FALSE, "none", FALSE)
                       EXCEPT !.posted = TRUE]
          /\ UNCHANGED spoofers
       \/ \E o \in get_spoofer("keyboard") :
             \E r \in IF o.construct = "failed"
                      THEN {"none"} ELSE send_key_input :
                /\ spoofers' = o.globals
                /\ inj' = [Acquired("send_key_raw", "keyboard", TRUE,
                                    o.construct, o.construct # "failed")
                               EXCEPT !.sendinput = r,
                                      !.posted = (r # "injected")]
    /\ UNCHANGED <<tickerVars, groupVars, sysVars, planVars, loopVars, mcall>>

\* the callers of get_mouse_spoofer(): the trajectory loops, which ask when
\* is_foreground(), and the foreground arm of _perform_random_click
MouseCallers == {"move_mouse_with_trajectory", "restore_mouse_position",
                 "_perform_random_click"}

\* is_foreground() and  try: mouse_spoofer = get_mouse_spoofer()  except:
\* the non-spoofed path
AcquireMouse ==
    /\ \E fn \in MouseCallers :
          \/ /\ inj' = Acquired(fn, "mouse", FALSE, "none", FALSE)
             /\ UNCHANGED spoofers
          \/ \E o \in get_spoofer("mouse") :
                /\ spoofers' = o.globals
                /\ inj' = Acquired(fn, "mouse", TRUE, o.construct,
                                   o.construct # "failed")
    /\ UNCHANGED <<tickerVars, groupVars, sysVars, planVars, loopVars, mcall>>

\* ---- MouseHardwareSpoofer

MOUSEEVENTF_MOVE == 1
MOUSEEVENTF_LEFTDOWN == 2
MOUSEEVENTF_LEFTUP == 4
MOUSEEVENTF_RIGHTDOWN == 8
MOUSEEVENTF_RIGHTUP == 16
MOUSEEVENTF_MIDDLEDOWN == 32
MOUSEEVENTF_MIDDLEUP == 64
MOUSEEVENTF_ABSOLUTE == 32768

\* the button arguments tried; "x1" is none of the three the method knows
Buttons == {"left", "right", "middle", "x1"}
ValidButtons == {"left", "right", "middle"}
\* the down_time arguments tried, in ms
DownTimes == {0, 50}

down_flag(button) ==
    CASE button = "left"   -> MOUSEEVENTF_LEFTDOWN
      [] button = "right"  -> MOUSEEVENTF_RIGHTDOWN
      [] button = "middle" -> MOUSEEVENTF_MIDDLEDOWN

up_flag(button) ==
    CASE button = "left"   -> MOUSEEVENTF_LEFTUP
      [] button = "right"  -> MOUSEEVENTF_RIGHTUP
      [] button = "middle" -> MOUSEEVENTF_MIDDLEUP

\* The frame of a call: events lists the SendInput calls made, each with the
\* flags and coordinates of its record and the count SendInput returned;
\* slept the time.sleep made (ms); ret the value returned ("": none yet).
NoCall == [pc |-> "none", fn |-> "", button |-> "", down_time |-> 0,
           x |-> 0, y |-> 0, events |-> <<>>, slept |-> 0, ret |-> ""]

SendInput(dwFlags, dx, dy, result) ==
    [dwFlags |-> dwFlags, dx |-> dx, dy |-> dy, result |-> result]

\* mouse_spoofer.click_mouse(button, down_time), up to the first SendInput
ClickMouseCall ==
    /\ spoofers.mouse
    /\ mcall.pc \in {"none", "returned"}
    /\ \E button \in Buttons, down_time \in DownTimes :
          mcall' = [NoCall EXCEPT
                       !.fn = "click_mouse", !.button = button,
                       !.down_time = down_time,
                       !.pc = IF button \in ValidButtons
                              THEN "down" ELSE "returned",
                       !.ret = IF button \in ValidButtons THEN "" ELSE "False"]
    /\ UNCHANGED <<tickerVars, groupVars, sysVars, planVars, loopVars,
                   spoofers, inj>>

\* SendInput of the button-down record; result == 0 returns False
ClickMouseDown ==
    /\ mcall.pc = "down"
    /\ \E result \in {0, 1} :
          mcall' = [mcall EXCEPT
                       !.events = Append(@, SendInput(down_flag(mcall.button),
                                                      0, 0, result)),
                       !.pc = IF result = 0 THEN "returned" ELSE "up",
                       !.ret = IF result = 0 THEN "False" ELSE ""]
    /\ UNCHANGED <<tickerVars, groupVars, sysVars, planVars, loopVars,
                   spoofers, inj>>

\* a click_mouse that reports success whatever the release did
ClickMouseUpUnchecked ==
    /\ mcall.pc = "up"
    /\ \E result \in {0, 1} :
          mcall' = [mcall EXCEPT
                       !.slept = IF mcall.down_time > 0
                                 THEN mcall.down_time ELSE 0,
                       !.events = Append(@, SendInput(up_flag(mcall.button),
                                                      0, 0, result)),
                       !.pc = "returned",
                       !.ret = "True"]
    /\ UNCHANGED <<tickerVars, groupVars, sysVars, planVars, loopVars,
                   spoofers, inj>>

\* if down_time > 0: time.sleep(down_time); SendInput of the button-up
\* record; result == 0 returns False, else True
ClickMouseUp ==
    /\ mcall.pc = "up"
    /\ \E result \in {0, 1} :
          mcall' = [mcall EXCEPT
                       !.slept = IF mcall.down_time > 0
                                 THEN mcall.down_time ELSE 0,
                       !.events = Append(@, SendInput(up_flag(mcall.button),
                                                      0, 0, result)),
                       !.pc = "returned",
                       !.ret = IF result = 0 THEN "False" ELSE "True"]
    /\ UNCHANGED <<tickerVars, groupVars, sysVars, planVars, loopVars,
                   spoofers, inj>>

\* The foreground arm of _perform_random_click after its click_mouse('left',
\* actual_down_time) has returned False:
\* self.pydirect_interaction.click(down_time=_down_time), a press and a
\* release of the left button, each delivered to the system or not.
ClickFallback ==
    /\ mcall.fn = "click_mouse"
    /\ mcall.pc = "returned"
    /\ mcall.button = "left"
    /\ mcall.down_time > 0
    /\ mcall.ret = "False"
    /\ \E down \in {0, 1}, up \in {0, 1} :
          mcall' = [mcall EXCEPT
                       !.fn = "_perform_random_click",
                       !.events = @ \o
                           <<SendInput(MOUSEEVENTF_LEFTDOWN, 0, 0, down),
                             SendInput(MOUSEEVENTF_LEFTUP, 0, 0, up)>>]
    /\ UNCHANGED <<tickerVars, groupVars, sysVars, planVars, loopVars,
                   spoofers, inj>>

\* the pixel positions tried on a screen side of length n: both edges, the
\* pixels next to them and the middle
OnScreen(n) == {0, 1, n \div 2, n - 2, n - 1}

\* _add_micro_jitter: no jitter, or random.randint(-2, 2) on each axis
MicroJitters == {<<0, 0>>} \cup ((-2..2) \X (-2..2))

\* int((x * 65535) / screen_side)
Normalized(x, side) == Trunc(x * 65535, side)

\* mouse_spoofer.move_mouse_absolute(x, y), the whole call
MoveMouseAbsolute ==
    /\ spoofers.mouse
    /\ mcall.pc \in {"none", "returned"}
    /\ \E x \in OnScreen(spoofers.screen[1]),
          y \in OnScreen(spoofers.screen[2]),
          jitter \in MicroJitters, result \in {0, 1} :
          mcall' = [NoCall EXCEPT
                       !.fn = "move_mouse_absolute", !.x = x, !.y = y,
                       !.events = <<SendInput(
                           MOUSEEVENTF_MOVE + MOUSEEVENTF_ABSOLUTE,
                           Normalized(x + jitter[1], spoofers.screen[1]),
                           Normalized(y + jitter[2], spoofers.screen[2]),
                           result)>>,
                       !.pc = "returned",
                       !.ret = IF result = 0 THEN "False" ELSE "True"]
    /\ UNCHANGED <<tickerVars, groupVars, sysVars, planVars, loopVars,
                   spoofers, inj>>

\* no spoofer built, no acquisition and no call yet
InjectIdle == spoofers = NoSpoofers /\ inj = NoInj /\ mcall = NoCall

----------------------------------------------------------------------------
\* setup_fidget_action called again and again: the _fidget_worker threads of
\* the thread pool. A worker is followed through the tests of its loop
\* only; a pool of max_workers threads runs that many submissions at once
\* and keeps the others waiting.

\* at most MaxWorkers submissions are alive (running or waiting) at a time,
\* and the pools tried have 1..MaxWorkers threads
MaxWorkers == 3

\* self.enable_fidget_action = True  (set in __init__, written nowhere else)
enable_fidget_action == TRUE

\* a pool of n threads, nothing submitted
NewPool(n) == [max_workers |-> n, workers |-> <<>>, queued |-> 0]

\* the sequence s without its element at index w
Without(s, w) == [k \in 1..(Len(s) - 1) |-> IF k < w THEN s[k] ELSE s[k + 1]]

\* the pool after the worker at index w has returned: its thread takes the
\* next waiting submission, if there is one
AfterReturn(w) ==
    IF pool.queued > 0
    THEN [pool EXCEPT !.workers = Append(Without(@, w), "loop"),
                      !.queued = @ - 1]
    ELSE [pool EXCEPT !.workers = Without(@, w)]

\* setup_fidget_action(): returns when enable_fidget_action is false, else
\* thread_pool_executor.submit(_fidget_worker)
SubmitWorker ==
    /\ enable_fidget_action
    /\ Len(pool.workers) + pool.queued < MaxWorkers
    /\ pool' = IF Len(pool.workers) < pool.max_workers
               THEN [pool EXCEPT !.workers = Append(@, "loop")]
               ELSE [pool EXCEPT !.queued = @ + 1]
    /\ UNCHANGED <<tickerVars, groupVars, sysVars, planVars, key, iter,
                   moved, injectVars>>

\* the test of the while loop of worker w, and the pause
PoolLoop ==
    /\ \E w \in 1..Len(pool.workers) :
          /\ pool.workers[w] = "loop"
          /\ pool' = IF ~Running THEN AfterReturn(w)
                     ELSE IF executor.paused THEN pool
                     ELSE [pool EXCEPT !.workers[w] = "body"]
    /\ UNCHANGED <<tickerVars, groupVars, sysVars, planVars, key, iter,
                   moved, injectVars>>

\* the body of the loop of worker w, up to the long sleep
PoolBody ==
    /\ \E w \in 1..Len(pool.workers) :
          /\ pool.workers[w] = "body"
          /\ pool' = [pool EXCEPT !.workers[w] = "sleep"]
    /\ UNCHANGED <<tickerVars, groupVars, sysVars, planVars, key, iter,
                   moved, injectVars>>

\* smart_sleep of worker w: False (break) when the task is gone, else True
\* at the deadline
PoolSleep ==
    /\ \E w \in 1..Len(pool.workers) :
          /\ pool.workers[w] = "sleep"
          /\ pool' = IF ~Running THEN AfterReturn(w)
                     ELSE [pool EXCEPT !.workers[w] = "loop"]
    /\ UNCHANGED <<tickerVars, groupVars, sysVars, planVars, key, iter,
                   moved, injectVars>>

\* no key press in progress, nothing done in the loop, an empty pool
LoopIdle ==
    /\ key = NoKey
    /\ iter = <<>>
    /\ pool = NewPool(MaxWorkers)
    /\ moved = <<0, 0>>

----------------------------------------------------------------------------
\* The specifications.

\* no call of the motion executor or of the planner
PlanIdle == motion = IdleMotion /\ bezier = NoBezier

SysIdle ==
    /\ fidget_params = [hold_lalt |-> FALSE, skip_jitter |-> FALSE,
                        mouse_lock |-> FALSE]
    /\ afk_config = [jitter |-> TRUE, lock_in_window |-> TRUE]
    /\ executor = [current_task |-> TRUE, exit_event |-> FALSE,
                   paused |-> FALSE]
    /\ lalt_pressed = FALSE
    /\ needs_resync = FALSE
    /\ lalt = <<>>
    /\ current_drift = <<0, 0>>
    /\ wpc = "none"
    /\ click = NoClick
    /\ mv = [t \in Threads |-> NoMove]
    /\ ev = Silent
    /\ shared_frame = "None"
    /\ PlanIdle
    /\ LoopIdle
    /\ InjectIdle

\* the two threads while a task runs
Init ==
    /\ TickerIdle
    /\ GroupIdle
    /\ fidget_params = [hold_lalt |-> FALSE, skip_jitter |-> FALSE,
                        mouse_lock |-> FALSE]
    /\ afk_config \in [jitter : {TRUE}, lock_in_window : BOOLEAN]
    /\ executor = [current_task |-> TRUE, exit_event |-> FALSE,
                   paused |-> FALSE]
    /\ lalt_pressed = FALSE
    /\ needs_resync = FALSE
    /\ lalt = <<>>
    /\ current_drift = <<0, 0>>
    /\ wpc = "none"
    /\ click = NoClick
    /\ mv = [t \in Threads |-> NoMove]
    /\ ev = Silent
    /\ shared_frame = "None"
    /\ PlanIdle
    /\ LoopIdle
    /\ InjectIdle

MainStep ==
    \/ MainMove
    \/ MainMoveReturn
    \/ StartClick
    \/ ClickPostSleep
    \/ ClickAfterMove
    \/ ClickDirect
    \/ ClickPress
    \/ ClickAfterSleep
    \/ ClickRestore
    \/ ClickRestorePoint
    \/ ClickUnlock
    \/ SetSkipJitter

WorkerStep ==
    \/ SetupFidgetAction
    \/ WorkerLoop
    \/ WorkerCheckAlt
    \/ JitterGuard
    \/ JitterClamp
    \/ JitterAfterClamp
    \/ JitterDrift
    \/ KeyDown
    \/ KeyUp
    \/ SmartSleep

MoveStep ==
    \E t \in Threads :
        \/ MoveLock(t)
        \/ MoveProbe(t)
        \/ MoveJump(t)
        \/ MovePoint(t)
        \/ MoveFinally(t)

Next == MainStep \/ WorkerStep \/ MoveStep

Spec == Init /\ [][Next]_vars

\* one ticker and its callers
TickerNext ==
    \/ Advance
    \/ DoTick
    \/ DoReset
    \/ DoTouch
    \/ DoStartNextTick

TickerSpecInit ==
    /\ TickerInit
    /\ GroupIdle
    /\ SysIdle

TickerSpec == TickerSpecInit /\ [][TickerNext]_vars

\* one ticker group and its callers
GroupNext ==
    \/ GroupAdvance
    \/ GroupTick
    \/ GroupReset
    \/ GroupTouch
    \/ GroupStartNextTick

GroupSpecInit ==
    /\ now = 0
    /\ last_time = NewTicker.last_time
    /\ armed = NewTicker.armed
    /\ interval \in GroupIntervals
    /\ interval_random_range = <<10, 10>>
    /\ tk = NoOps
    /\ GroupInit
    /\ SysIdle

GroupSpec == GroupSpecInit /\ [][GroupNext]_vars

\* the worker, the modifier hold switched by a task, the jitter setting
\* and the frame
HoldNext ==
    \/ SetHoldLalt
    \/ SetJitter
    \/ NewFrame
    \/ WorkerStep
    \/ MoveStep

HoldSpecInit ==
    /\ TickerIdle
    /\ GroupIdle
    /\ SysIdle

HoldSpec == HoldSpecInit /\ [][HoldNext]_vars

\* the worker with the modifier hold on, the frame, and an executor that
\* pauses, loses its task and sets its exit event
CancelNext ==
    \/ SetPaused
    \/ TaskEnds
    \/ SetExitEvent
    \/ NewFrame
    \/ WorkerStep
    \/ MoveStep

CancelSpecInit ==
    /\ TickerIdle
    /\ GroupIdle
    /\ PlanIdle
    /\ LoopIdle
    /\ InjectIdle
    /\ fidget_params = [hold_lalt |-> TRUE, skip_jitter |-> FALSE,
                        mouse_lock |-> FALSE]
    /\ afk_config \in [jitter : {TRUE}, lock_in_window : BOOLEAN]
    /\ executor = [current_task |-> TRUE, exit_event |-> FALSE,
                   paused |-> FALSE]
    /\ shared_frame = "None"
    /\ lalt_pressed = FALSE
    /\ needs_resync = FALSE
    /\ lalt = <<>>
    /\ current_drift = <<0, 0>>
    /\ wpc = "none"
    /\ click = NoClick
    /\ mv = [t \in Threads |-> NoMove]
    /\ ev = Silent

CancelSpec == CancelSpecInit /\ [][CancelNext]_vars

\* the motion executor, one call after the other
MotionNext ==
    \/ MotionCall
    \/ MotionStart
    \/ MotionPoint
    \/ MotionEnd

MotionSpecInit ==
    /\ TickerIdle
    /\ GroupIdle
    /\ SysIdle

MotionSpec == MotionSpecInit /\ [][MotionNext]_vars

\* the trajectory planner, one call after the other
BezierNext ==
    \/ BezierCall
    \/ BezierSample
    \/ BezierDedup

BezierSpecInit ==
    /\ TickerIdle
    /\ GroupIdle
    /\ SysIdle

BezierSpec == BezierSpecInit /\ [][BezierNext]_vars

\* the spoofers and the callers that ask for them
InjectNext ==
    \/ SendKeyRaw
    \/ AcquireMouse

InjectSpecInit ==
    /\ TickerIdle
    /\ GroupIdle
    /\ SysIdle

InjectSpec == InjectSpecInit /\ [][InjectNext]_vars

\* the calls on a mouse spoofer that get_mouse_spoofer() has built
MouseNext ==
    \/ ClickMouseCall
    \/ ClickMouseDown
    \/ ClickMouseUp
    \/ ClickFallback
    \/ MoveMouseAbsolute

MouseSpecInit ==
    /\ TickerIdle
    /\ GroupIdle
    /\ PlanIdle
    /\ LoopIdle
    /\ spoofers \in {[keyboard |-> FALSE, mouse |-> TRUE, screen |-> s] :
                        s \in Screens}
    /\ inj = NoInj
    /\ mcall = NoCall
    /\ fidget_params = [hold_lalt |-> FALSE, skip_jitter |-> FALSE,
                        mouse_lock |-> FALSE]
    /\ afk_config = [jitter |-> TRUE, lock_in_window |-> TRUE]
    /\ executor = [current_task |-> TRUE, exit_event |-> FALSE,
                   paused |-> FALSE]
    /\ shared_frame = "None"
    /\ lalt_pressed = FALSE
    /\ needs_resync = FALSE
    /\ lalt = <<>>
    /\ current_drift = <<0, 0>>
    /\ wpc = "none"
    /\ click = NoClick
    /\ mv = [t \in Threads |-> NoMove]
    /\ ev = Silent

MouseSpec == MouseSpecInit /\ [][MouseNext]_vars

\* setup_fidget_action called again and again, under an executor that
\* pauses, loses its task and sets its exit event
PoolNext ==
    \/ SubmitWorker
    \/ PoolLoop
    \/ PoolBody
    \/ PoolSleep
    \/ SetPaused
    \/ TaskEnds
    \/ SetExitEvent

PoolSpecInit ==
    /\ TickerIdle
    /\ GroupIdle
    /\ PlanIdle
    /\ InjectIdle
    /\ key = NoKey
    /\ iter = <<>>
    /\ pool \in {NewPool(n) : n \in 1..MaxWorkers}
    /\ moved = <<0, 0>>
    /\ fidget_params = [hold_lalt |-> FALSE, skip_jitter |-> FALSE,
                        mouse_lock |-> FALSE]
    /\ afk_config = [jitter |-> TRUE, lock_in_window |-> TRUE]
    /\ executor = [current_task |-> TRUE, exit_event |-> FALSE,
                   paused |-> FALSE]
    /\ shared_frame = "None"
    /\ lalt_pressed = FALSE
    /\ needs_resync = FALSE
    /\ lalt = <<>>
    /\ current_drift = <<0, 0>>
    /\ wpc = "none"
    /\ click = NoClick
    /\ mv = [t \in Threads |-> NoMove]
    /\ ev = Silent

PoolSpec == PoolSpecInit /\ [][PoolNext]_vars

\* the same, with a worker thread that is scheduled again and again
CancelLiveSpec ==
    CancelSpecInit /\ [][CancelNext]_vars /\ WF_vars(WorkerStep \/ MoveStep)

----------------------------------------------------------------------------
\* The claims.

\* the foreground thread has sent the first point of a trajectory of
\* move_mouse_with_trajectory and not yet the last
InMainTrajectory == mv["main"].pc = "point" /\ mv["main"].i > 1

\* _perform_random_click has set the lock and has neither reached its last
\* statement's end nor is an exception on its way out of the call
ClickInProgress ==
    /\ click.pc # "idle"
    /\ ~(click.pc = "move" /\ mv["main"].pc = "returned"
            /\ mv["main"].via = "exception")

\* C1: under any interleaving of the two threads, the fidget worker emits
\* no cursor movement (drift step or re-clamp) between the first and the
\* last cursor movement of a trajectory the foreground thread runs.
C1_NoDriftInsideTrajectory ==
    ~(ev.by = "fidget" /\ ev.what \in CursorMoves /\ InMainTrajectory)

\* C2: in every call of _perform_random_click, mouse_lock is true from the
\* moment it is set until the click and the restore have completed.
C2_ClickHoldsLock == ClickInProgress => mouse_lock

\* C3: every call of _perform_random_click leaves mouse_lock false when it
\* ends, also when it ends with an exception.
C3_ClickEndsUnlocked == ev.what = "click_end" => ~mouse_lock

\* C4: every call of move_mouse_with_trajectory leaves mouse_lock false
\* when it ends: after the direct jump, after the whole trajectory, and
\* after an exception.
C4_MoveEndsUnlocked == ev.what = "move_end" => ~mouse_lock

\* C4, its case: a call by the foreground thread has just ended with an
\* exception raised inside the trajectory
C4_Witness ==
    /\ ev = Ev("main", "move_end", "exception")
    /\ mv["main"].i > 1

\* C5: a drift step that begins with mouse_lock or skip_jitter set changes
\* nothing: the accumulator is as it was, no cursor movement is emitted, no
\* re-clamp is begun, and the worker is at the statement after the step.
C5_LockedDriftStepIsNoOp ==
    [][(wpc = "jitter" /\ wpc' # "jitter" /\ (mouse_lock \/ skip_jitter))
        => /\ current_drift' = current_drift
           /\ wpc' = "key_down"
           /\ mv' = mv
           /\ ev'.what \notin CursorMoves]_vars

\* C5, its case: a drift step was just skipped under the lock, with a
\* non-zero accumulator
C5_Witness ==
    /\ ev = Ev("fidget", "jitter", "skipped")
    /\ mouse_lock
    /\ current_drift # <<0, 0>>

\* C6 as stated: reset() followed by a fire-attempt calls the action once,
\* in every state of the ticker.
C6_ResetThenTickFires ==
    (tk.op = "tick" /\ tk.prev = "reset") => tk.fired = 1

\* C6 amended: reset() followed by a fire-attempt calls the action exactly
\* once, unless a start_next_tick() is waiting for that fire-attempt.
C6_ResetThenTickFiresUnlessArmed ==
    (tk.op = "tick" /\ tk.prev = "reset" /\ ~tk.pend0) => tk.fired = 1

\* C6, its case: a reset and a fire-attempt 0.3 s after the start of a
\* ticker of 1.0 s that fired before
C6_Witness ==
    /\ tk.op = "tick" /\ tk.prev = "reset" /\ ~tk.pend0
    /\ tk.fired = 1
    /\ interval = 10 /\ tk.at = 3

\* C7 as stated: touch() followed at once by a fire-attempt never calls the
\* action, for every interval and random range.
C7_TouchThenTickSilent ==
    (tk.op = "tick" /\ tk.prev = "touch" /\ tk.at = tk.prevAt)
        => tk.fired = 0

\* C7 amended: touch() followed at once by a fire-attempt does not call the
\* action when the effective interval (interval x multiplier) is positive.
C7_TouchThenTickSilentIfPositive ==
    (tk.op = "tick" /\ tk.prev = "touch" /\ tk.at = tk.prevAt
        /\ interval * tk.mult > 0)
        => tk.fired = 0

\* C7, its case: touch and fire-attempt at the same time, long after the
\* start, nothing armed
C7_Witness ==
    /\ tk.op = "tick" /\ tk.prev = "touch" /\ tk.at = tk.prevAt
    /\ ~tk.pend0 /\ interval = 5 /\ tk.at = 7 /\ tk.fired = 0

\* C8: the fire-attempt after start_next_tick() does not call the action,
\* clears armed and sets last_time to its own time; the fire-attempt that
\* follows it at least one effective interval later calls the action.
C8_ArmedTickResyncs ==
    /\ (tk.op = "tick" /\ tk.pend0)
          => (tk.fired = 0 /\ ~armed /\ last_time = tk.at)
    /\ (tk.op = "tick" /\ tk.prev = "tick" /\ tk.prevPend0
           /\ (tk.at - tk.prevAt) * 10 >= interval * tk.mult)
          => tk.fired = 1

\* C8, its case: the fire-attempt 1.0 s after the one that consumed the
\* armed flag
C8_Witness ==
    /\ tk.op = "tick" /\ tk.prev = "tick" /\ tk.prevPend0
    /\ interval = 10 /\ tk.mult = 10 /\ tk.at - tk.prevAt = 10
    /\ tk.fired = 1

\* C9: with random range (1.0, 1.0) and a constant interval I > 0, after a
\* fire-attempt that fired at t0 and no reset, touch or start_next_tick
\* since, a fire-attempt at t calls the action iff t - t0 >= I.
C9_FiresIffIntervalElapsed ==
    (tk.op = "tick" /\ tk.fire0 >= 0 /\ interval > 0
        /\ interval_random_range = <<10, 10>>)
        => (tk.fired = 1 <=> tk.at - tk.fire0 >= interval)

\* C9, its case: interval 1.0 s, fired at 0, the fire-attempt at 1.1 fires
C9_Witness ==
    /\ tk.op = "tick" /\ tk.fire0 = 0 /\ tk.at = 11
    /\ interval = 10 /\ interval_random_range = <<10, 10>>
    /\ tk.fired = 1

\* the members that receive a group operation, in list order
Receivers(op, members) ==
    LET Has(i) == op = "tick" \/ hasattr(members[i], op)
    IN  SelectSeq([i \in 1..Len(members) |-> i], Has)

\* one member after one application of a group operation
Applied(op, m, t) ==
    CASE op = "tick"  -> MemberTick(m, t, interval)
      [] op = "reset" -> WithCells(m, reset(MemberCells(m)))
      [] op = "touch" -> WithCells(m, touch(MemberCells(m), t))
      [] OTHER        -> WithCells(m, start_next_tick(MemberCells(m)))

\* C10: a group operation is applied exactly once to every member that has
\* it, in list order; a member without it is skipped, left as it was, and
\* the members after it still receive the operation.
C10_GroupBroadcast ==
    glog.op # "none" =>
        /\ glog.calls = Receivers(glog.op, glog.before)
        /\ Len(tickers) = Len(glog.before)
        /\ \A i \in 1..Len(tickers) :
              tickers[i] = IF glog.op = "tick" \/ hasattr(glog.before[i], glog.op)
                           THEN Applied(glog.op, glog.before[i], glog.at)
                           ELSE glog.before[i]

\* C10, its case: reset_all() on a ticker, a plain callable and a ticker
C10_Witness ==
    /\ glog.op = "reset"
    /\ Len(tickers) = 3
    /\ tickers[1].kind = "ticker" /\ tickers[2].kind = "callable"
    /\ tickers[3].kind = "ticker"
    /\ glog.calls = <<1, 3>>
    /\ tickers[3].last_time = -1

\* the states of the modifier-hold machine
Idle == ~lalt_pressed /\ ~needs_resync
Held == lalt_pressed /\ ~needs_resync
PausedForResync == lalt_pressed /\ needs_resync

\* a step of the worker that is one call of check_alt_logic(): the one of
\* the loop body, or one of smart_sleep
CheckStep ==
    /\ \/ wpc = "alt" /\ wpc' = "jitter"
       \/ wpc = "sleep" /\ wpc' = "sleep"
    /\ UNCHANGED <<fidget_params, afk_config, executor, shared_frame>>

\* the modifier key event of a check: the event what by the branch how
AltKey(e, what, how) ==
    e.by = "fidget" /\ e.what = what /\ e.via = how

\* what a check does with the hold feature on, by the state it begins in
HoldTransition ==
    /\ Idle => (AltKey(ev', "key_down", "activate") /\ Held')
    /\ (Held /\ ~in_team)
          => /\ AltKey(ev', "key_up", "pause")
             /\ ev'.slept \in get_magic_sleep_time
             /\ PausedForResync'
    /\ (PausedForResync /\ ~in_team)
          => (ev' = Silent /\ PausedForResync')
    /\ (PausedForResync /\ in_team)
          => (AltKey(ev', "key_down", "resume") /\ Held')

C12_DisableReleases ==
    [][(CheckStep /\ ~fidget_params.hold_lalt)
          => /\ lalt_pressed => AltKey(ev', "key_up", "stop")
             /\ ~lalt_pressed => ev' = Silent
             /\ Idle']_vars


\* the points of the current call that were delivered at or after point i
SentFrom(i) == {k \in 1..Len(motion.sent) : motion.sent[k].i >= i}

\* the call went past its loop, or its direct set, without an exception
MotionCompleted ==
    \/ motion.pc = "done"
    \/ motion.pc = "ended" /\ motion.via = "normal"

\* C13: in move_mouse_with_trajectory, after a point on which
\* move_mouse_absolute returned False, every later point of the call is
\* delivered with SetCursorPos.
C13_FailedInjectionFallsBack ==
    (motion.fn = "move_mouse_with_trajectory" /\ motion.false_at > 0)
        => \A k \in SentFrom(motion.false_at + 1) :
              motion.sent[k].prim = "SetCursorPos"

\* C14: in move_mouse_with_trajectory and restore_mouse_position, once
\* use_hardware_spoof has been dropped (no spoofer, or an injection raised),
\* no later point of the call is injected, and the point on which it was
\* dropped is delivered with SetCursorPos.
C14_FallbackIsSticky ==
    motion.fallback_at > 0 =>
        /\ \A k \in SentFrom(motion.fallback_at) :
              motion.sent[k].prim = "SetCursorPos"
        /\ (motion.i > motion.fallback_at \/ MotionCompleted)
              => \E k \in SentFrom(motion.fallback_at) :
                    motion.sent[k].i = motion.fallback_at

\* C14, its case: a restore over three points whose second injection
\* raised
C14_Witness ==
    /\ motion.fn = "restore_mouse_position"
    /\ motion.pc = "ended" /\ motion.via = "normal"
    /\ motion.fallback_at = 2
    /\ Len(motion.sent) = 3
    /\ motion.sent[1].prim = "move_mouse_absolute"
    /\ motion.sent[2].prim = "SetCursorPos"
    /\ motion.sent[3].prim = "SetCursorPos"

\* C15: with a distance below 5, move_mouse_with_trajectory and
\* move_mouse_abs_with_trajectory plan nothing and set the cursor to the
\* target exactly once; restore_mouse_position moves nothing, as it does
\* when the saved position is None.
C15_ShortDistanceJumps ==
    (MotionCompleted
        /\ (motion.target = None \/ Near(motion.current_pos, motion.target)))
        => /\ motion.trajectory = <<>>
           /\ motion.sent = IF motion.fn = "restore_mouse_position"
                            THEN <<>>
                            ELSE <<Delivered("SetCursorPos",
                                             motion.target, 0)>>

\* C15, its case: a restore_mouse_position that ended within 5 of a saved
\* position that is not the cursor's
C15_Witness ==
    /\ motion.fn = "restore_mouse_position"
    /\ motion.pc = "ended" /\ motion.via = "normal"
    /\ motion.target # None
    /\ Dist2(motion.current_pos, motion.target) = 20
    /\ motion.sent = <<>>

\* the planner has returned optimized_points
Planned == bezier.pc = "returned"

\* no two adjacent points of a list are equal
NoAdjacentRepeat(pts) == \A k \in 1..(Len(pts) - 1) : pts[k] # pts[k + 1]

\* C16: for integer start and end at distance >= 5, the returned list
\* begins with the start, ends with the end and has no two equal adjacent
\* points.
C16_PlanEndpointsAndNoRepeats ==
    Planned =>
        /\ bezier.optimized_points[1] = bezier.start
        /\ bezier.optimized_points[Len(bezier.optimized_points)] = bezier.end
        /\ NoAdjacentRepeat(bezier.optimized_points)

\* C16, its case: a plan over distance 5 whose samples repeat, so that the
\* returned list is shorter than the sampled one
C16_Witness ==
    /\ Planned
    /\ bezier.end = <<3, 4>>
    /\ ~NoAdjacentRepeat(bezier.points)
    /\ Len(bezier.optimized_points) < Len(bezier.points)

\* C17 as stated: the trajectory returned by _generate_bezier_curve has
\* between 8 and 60 points (12 for (0,0) to (300,0)).
C17_ReturnedCountClamped ==
    Planned =>
        /\ Len(bezier.optimized_points) >= 8
        /\ Len(bezier.optimized_points) <= 60
        /\ (bezier.start = <<0, 0>> /\ bezier.end = <<300, 0>>)
              => Len(bezier.optimized_points) = 12

\* C17 amended: the number of samples is between 8 and 60, does not
\* decrease when the distance increases and is 12 for (0,0) to (300,0);
\* the returned list has at least 2 points and at most the samples.
C17_SampledCountClamped ==
    Planned =>
        /\ Len(bezier.points) = bezier.num_points
        /\ bezier.num_points >= 8
        /\ bezier.num_points <= 60
        /\ \A b \in PlanEnds :
              Dist2(bezier.start, b) >= Dist2(bezier.start, bezier.end)
                 => NumPoints(Dist2(bezier.start, b)) >= bezier.num_points
        /\ (bezier.start = <<0, 0>> /\ bezier.end = <<300, 0>>)
              => bezier.num_points = 12
        /\ Len(bezier.optimized_points) >= 2
        /\ Len(bezier.optimized_points) <= bezier.num_points

\* C17, its case: the plan for (0,0) to (1600,0), with the wave, at the
\* upper limit
C17_Witness ==
    /\ Planned
    /\ bezier.end = <<1600, 0>>
    /\ bezier.wave = 1
    /\ bezier.num_points = 60
    /\ Len(bezier.points) = 60

\* the input events a step can emit
InputEvents == CursorMoves \cup {"key_down", "key_up", "click"}

\* the last step was the worker emitting an input event
WorkerEmitted == ev.by = "fidget" /\ ev.what \in InputEvents

\* C18: once the current task is absent or the exit event is set, the
\* worker emits no further input event before it leaves its loop.
C18_NoInputAfterCancel == ~Running => ~WorkerEmitted

C20_PausedWorkerSilent == executor.paused => ~WorkerEmitted

\* thread t is inside the loop of move_mouse_with_trajectory and has sent
\* the first point of the trajectory, not yet the last
PartWay(t) == mv[t].pc = "point" /\ mv[t].i > 1

\* C21: if the exit event is set or the current task is absent while
\* move_mouse_with_trajectory is part-way through a trajectory, the next
\* step of the call sends no point, and the call goes to its finally (which
\* releases mouse_lock) as a normal return.
C21_CancelAbortsMotion ==
    [][\A t \in Threads :
          (~Running /\ PartWay(t) /\ mv'[t] # mv[t])
              => /\ ~(ev'.by = t /\ ev'.what \in CursorMoves)
                 /\ mv'[t].pc = "finally"
                 /\ mv'[t].via = "normal"]_vars

\* C22: once the construction of the spoofer of a device has failed, no
\* later key or mouse action runs that constructor again or goes on to a
\* spoofed injection with that device.
C22_FailedProbeIsPermanent ==
    inj.device \in inj.failed0 => (inj.construct = "none" /\ ~inj.spoofed)

\* a call of click_mouse with one of the three buttons has returned
ClickReturned ==
    /\ mcall.fn = "click_mouse"
    /\ mcall.pc = "returned"
    /\ mcall.button \in ValidButtons

\* C23: click_mouse with a valid button sends the button-down record first;
\* when that was injected it sleeps the hold time and then sends the
\* matching button-up record (so every injected button-down is followed by
\* an attempt at the button-up), and when it was not it sends nothing more;
\* it returns True exactly when both records were injected and False
\* otherwise.
C23_ClickDownThenUp ==
    ClickReturned =>
        LET e == mcall.events IN
        /\ Len(e) >= 1
        /\ e[1].dwFlags = down_flag(mcall.button)
        /\ e[1].result = 0 => Len(e) = 1
        /\ e[1].result # 0 =>
              /\ Len(e) = 2
              /\ e[2].dwFlags = up_flag(mcall.button)
              /\ mcall.slept = mcall.down_time
        /\ mcall.ret \in {"True", "False"}
        /\ mcall.ret = "True" <=>
              (Len(e) = 2 /\ e[1].result # 0 /\ e[2].result # 0)

\* a click whose button-down was injected and whose button-up was not
C23_Witness ==
    /\ ClickReturned
    /\ Len(mcall.events) = 2
    /\ mcall.events[1].result # 0
    /\ mcall.events[2].result = 0
    /\ mcall.down_time > 0
    /\ mcall.ret = "False"

\* the step is one of the fidget worker thread: the worker moves in
\* _fidget_worker or in its call of move_mouse_with_trajectory
WorkerThreadStep == wpc' # wpc \/ mv'["fidget"] # mv["fidget"]

\* C24: a step that changes mouse_lock or skip_jitter is never a step of
\* the fidget worker thread.
C24_OnlyMainWritesFlags ==
    [][(mouse_lock' # mouse_lock \/ skip_jitter' # skip_jitter)
          => ~WorkerThreadStep]_vars

\* C25: at most one _fidget_worker is running in the pool, however many
\* times setup_fidget_action has been called.
C25_OneWorkerLoop == Len(pool.workers) <= 1

\* what a turn of the worker's loop does, in order: the modifier-hold check,
\* the drift step, the press and the release of one key
FullIteration ==
    <<"check_alt_logic", "perform_mouse_jitter", "key_down", "key_up">>

IsPrefix(s, t) == Len(s) <= Len(t) /\ \A k \in 1..Len(s) : s[k] = t[k]

\* the worker emits a drift move or an event of the random key press
DriftOrRandomKey(e) ==
    /\ e.by = "fidget"
    /\ e.what \in {"do_move_mouse_relative", "jitter"} \/ e.via = "random"

\* C26: in every turn of the worker's loop that is not paused the steps are
\* taken in the order check_alt_logic, perform_mouse_jitter, key-down,
\* key-up of the same key, each once, and the long sleep begins only after
\* all four; while the worker is in the long sleep it makes no drift step
\* and no random key press.
C26_IterationOrder ==
    /\ [](/\ IsPrefix(iter, FullIteration)
          /\ wpc = "sleep" => iter = FullIteration)
    /\ [][wpc = "sleep" => ~DriftOrRandomKey(ev')]_vars

\* the worker has just released the key and is about to sleep, after a
\* drift step that moved the cursor
C26_Witness ==
    /\ wpc = "sleep"
    /\ iter = FullIteration
    /\ ev = Ev("fidget", "key_up", "random")
    /\ current_drift # <<0, 0>>
    /\ ~executor.paused

\* the worker takes a drift step that is not skipped
DriftStep == wpc = "drift" /\ wpc' = "key_down"

\* dist_sq < 4
BelowThreshold(d) == d[1] * d[1] + d[2] * d[2] < 4

Abs(a) == IF a >= 0 THEN a ELSE -a

\* C27, as stated: a drift step that is not skipped sets the accumulator to
\* a target with both components in {-3, -2, 2, 3} when its squared
\* magnitude is below 4, and otherwise changes each component by at most 1.
C27_SnapOrNudge ==
    [][DriftStep =>
          IF BelowThreshold(current_drift)
          THEN current_drift' \in {-3, -2, 2, 3} \X {-3, -2, 2, 3}
          ELSE /\ Abs(current_drift'[1] - current_drift[1]) <= 1
               /\ Abs(current_drift'[2] - current_drift[2]) <= 1]_vars

\* C27, amended: a drift step that is not skipped sets the accumulator to a
\* target with both components in {-3, -2, 2, 3} when its squared magnitude
\* is below 4, and otherwise to a target with both components in
\* {-1, 0, 1}; the accumulator always moves.
C27_SnapOutOrSnapBack ==
    [][DriftStep =>
          /\ IF BelowThreshold(current_drift)
             THEN current_drift' \in {-3, -2, 2, 3} \X {-3, -2, 2, 3}
             ELSE current_drift' \in (-1..1) \X (-1..1)
          /\ current_drift' # current_drift]_vars

\* a drift step has brought the accumulator back from a snapped-out target
\* to within 1 of the origin
C27_Witness ==
    /\ ev = Ev("fidget", "do_move_mouse_relative", "drift")
    /\ current_drift \in (-1..1) \X (-1..1)

\* C28: the coordinates move_mouse_absolute puts in the injected record for
\* an on-screen pixel position lie in 0..65535, with or without the
\* micro-jitter.
C28_NormalizedInRange ==
    (mcall.fn = "move_mouse_absolute" /\ mcall.pc = "returned") =>
        /\ mcall.x \in 0..(spoofers.screen[1] - 1)
        /\ mcall.y \in 0..(spoofers.screen[2] - 1)
        /\ mcall.events[1].dx \in 0..65535
        /\ mcall.events[1].dy \in 0..65535

\* C29: a fire-attempt calls the action at most once; a fire-attempt that
\* finds the ticker armed does not call it; and a fire-attempt that calls it
\* comes at least interval * interval_random_range[0] after the call
\* before, when no reset() lies between the two.
C29_AtMostOnceAndSpaced ==
    tk.op = "tick" =>
        /\ tk.fired \in {0, 1}
        /\ tk.pend0 => tk.fired = 0
        /\ (tk.fired = 1 /\ tk.call0 >= 0) =>
              (tk.at - tk.call0) * 10 >= interval * interval_random_range[1]

\* the action is called a second time with no reset since the first call,
\* under a positive interval and after a touch() or an armed fire-attempt
\* has moved last_time
C29_Witness ==
    /\ tk.op = "tick"
    /\ tk.fired = 1
    /\ tk.call0 >= 0
    /\ tk.fire0 < tk.call0
    /\ interval > 0

\* C30: the first fire-attempt on a ticker that create_ticker has just
\* returned calls the action, at every clock value and under every
\* configured interval, as the first fire-attempt after reset() does.
C30_NewTickerFiresAtOnce ==
    (tk.op = "tick" /\ tk.prev = "none") => tk.fired = 1

\* the last modifier key event check_alt_logic() has sent ("none": none yet)
LastAltKey == IF lalt = <<>> THEN "none" ELSE lalt[Len(lalt)]

\* the worker thread has ended: at the end of _fidget_worker, or with an
\* exception
WorkerEnded == wpc \in {"stopped", "dead"}

\* C31: when the worker has stopped, the last modifier key event it sent is
\* not a key-down: the modifier is not left held down.
C31_StoppedWorkerReleased == WorkerEnded => LastAltKey # "key_down"

\* C32: the modifier key events check_alt_logic() sends alternate, starting
\* with a key-down: the first one is a key-down, and no two key-downs and
\* no two key-ups follow each other.
C32_ModifierEventsAlternate ==
    /\ Len(lalt) = 1 => lalt[1] = "key_down"
    /\ Len(lalt) = 2 => lalt[1] # lalt[2]

\* C33: needs_resync is set only while lalt_pressed is set: the resync is
\* never pending in Idle.
C33_ResyncOnlyWhilePressed == needs_resync => lalt_pressed

\* C33, its case: the stop branch has just left PausedForResync, where the
\* resync was pending, and the machine is in Idle
C33_Witness ==
    /\ AltKey(ev, "key_up", "stop")
    /\ lalt = <<"key_up", "key_up">>
    /\ Idle

\* the state of the modifier-hold machine with the flags p (lalt_pressed)
\* and r (needs_resync)
MachineState(p, r) ==
    IF p THEN (IF r THEN "PausedForResync" ELSE "Held")
    ELSE (IF r THEN "none" ELSE "Idle")

\* the transitions of the modifier-hold machine
MachineEdges ==
    {<<"Idle", "Held">>, <<"Held", "PausedForResync">>,
     <<"PausedForResync", "Held">>, <<"Held", "Idle">>,
     <<"PausedForResync", "Idle">>}

\* the step sends no modifier key event, or one
AtMostOneAltKey ==
    \/ ev' = Silent /\ lalt' = lalt
    \/ \E k \in {"key_down", "key_up"} :
          /\ ev'.by = "fidget" /\ ev'.what = k
          /\ lalt' = LastTwo(Append(lalt, k))

\* C34: one call of check_alt_logic() makes at most one transition of the
\* machine and sends at most one modifier key event; with the jitter
\* setting off it sends none and leaves the machine where it is.
C34_OneTransitionPerCheck ==
    [][CheckStep =>
          /\ AtMostOneAltKey
          /\ LET from == MachineState(lalt_pressed, needs_resync)
                 to == MachineState(lalt_pressed', needs_resync')
             IN  to = from \/ <<from, to>> \in MachineEdges
          /\ ~afk_config.jitter =>
                /\ ev' = Silent
                /\ UNCHANGED <<lalt_pressed, needs_resync, lalt>>]_vars

\* C34, its case: a check has made the one transition from Held to
\* PausedForResync and sent the one key-up of it
C34_Witness ==
    /\ AltKey(ev, "key_up", "pause")
    /\ PausedForResync
    /\ lalt = <<"key_down", "key_up">>

\* the records of the list e with the flags f that SendInput has injected
Injected(e, f) ==
    {k \in 1..Len(e) : e[k].dwFlags = f /\ e[k].result # 0}

\* C35: the click of the foreground arm of _perform_random_click, with or
\* without its fallback, delivers at most one press and at most one release
\* of the left button.
C35_OneDownOneUp ==
    (mcall.button = "left"
        /\ mcall.fn \in {"click_mouse", "_perform_random_click"}) =>
        /\ Cardinality(Injected(mcall.events, MOUSEEVENTF_LEFTDOWN)) <= 1
        /\ Cardinality(Injected(mcall.events, MOUSEEVENTF_LEFTUP)) <= 1

\* C36: a call of send_key_raw delivers its key event through one path and
\* one only: the spoofed injection when the window is in the foreground and
\* send_key_input() injected the event, and interaction.post() in every
\* other case (window in the background, spoofer not to be had,
\* send_key_input() returned False or raised).
C36_ExactlyOnePath ==
    inj.fn = "send_key_raw" =>
        /\ (inj.sendinput = "injected") # inj.posted
        /\ inj.sendinput = "injected" => (inj.asked /\ inj.spoofed)
        /\ inj.posted <=>
              \/ ~inj.asked
              \/ inj.construct = "failed"
              \/ inj.sendinput \in {"refused", "raised"}

\* C36, its case: in the foreground, with the spoofer built earlier,
\* send_key_input() found SendInput returning 0 and the event was posted
C36_Witness ==
    /\ inj.fn = "send_key_raw"
    /\ inj.asked /\ inj.construct = "none"
    /\ inj.sendinput = "refused"
    /\ inj.posted

\* C37: each component of the drift accumulator lies in -3..3, the
\* accumulator is the sum of the relative moves the drift steps have
\* emitted, and the drift steps that are not skipped take their two
\* branches in turn: a step that finds the accumulator below the
\* threshold leaves it at or above it, and the other way round.
C37_DriftBoundedAndSummed ==
    /\ [](/\ current_drift \in (-3..3) \X (-3..3)
          /\ current_drift = moved)
    /\ [][DriftStep =>
             BelowThreshold(current_drift)
                 # BelowThreshold(current_drift')]_vars

\* C37, its case: a drift step has taken the accumulator to a corner of its
\* range
C37_Witness ==
    /\ ev = Ev("fidget", "do_move_mouse_relative", "drift")
    /\ current_drift \in {-3, 3} \X {-3, 3}
    /\ moved = current_drift

\* C38: the armed flag is set exactly when start_next_tick() was called,
\* once or several times, with no fire-attempt since, whatever reset() and
\* touch() were called in between; the fire-attempt that finds it set
\* clears it, so the fire-attempt after that one does not find it set.
C38_ArmedConsumedByOneTick ==
    /\ armed = tk.pend
    /\ tk.op = "tick" => ~armed
    /\ (tk.op = "tick" /\ tk.prev = "tick") => ~tk.pend0
    /\ (tk.op \in {"reset", "touch"} /\ tk.pend0) => armed

\* C38, its case: start_next_tick() called while already armed, then a
\* touch(), and the flag is still set
C38_Witness ==
    /\ tk.op = "touch" /\ tk.prev = "start_next_tick"
    /\ tk.prevPend0 /\ tk.pend0
    /\ armed

\* a step that is one operation on the ticker
TickerOp == now' = now

\* C39: a fire-attempt that neither calls the action nor finds the ticker
\* armed leaves last_time and armed as they are; reset() and touch() leave
\* armed as it is; start_next_tick() leaves last_time as it is; and reset(),
\* touch() and start_next_tick() do not call the action.
C39_TickerFrame ==
    [][TickerOp =>
          /\ (tk'.op = "tick" /\ tk'.fired = 0 /\ ~armed)
                => UNCHANGED <<last_time, armed>>
          /\ tk'.op \in {"reset", "touch"}
                => (UNCHANGED armed /\ tk'.fired = 0)
          /\ tk'.op = "start_next_tick"
                => (UNCHANGED last_time /\ tk'.fired = 0)]_vars

\* C39, its case: a fire-attempt before the interval has passed since a
\* touch(): it calls nothing and last_time is still the time of the touch
C39_Witness ==
    /\ tk.op = "tick" /\ tk.prev = "touch"
    /\ tk.fired = 0 /\ ~tk.pend0
    /\ tk.at > tk.prevAt
    /\ last_time = tk.prevAt
    /\ ~armed
====
